---- MODULE Spec2Model ----
(***************************************************************************)
(* The shortcut/event state machine of the CapsWriter-Offline client:      *)
(* ShortcutManager (the dispatcher and the restore scheduler),             *)
(* ShortcutTask (the per-trigger recording task) and ShortcutEmulator      *)
(* (the synthesizer with its set of names being emulated).                 *)
(*                                                                         *)
(* Threads: one hook-callback thread (the dispatcher, taking OS events in  *)
(* arrival order) and the workers of the ThreadPoolExecutor.  Every access *)
(* to a set shared between them is one step; what only the dispatcher      *)
(* touches is folded into the step that ends the handling of the event.    *)
(***************************************************************************)
EXTENDS Integers, Sequences, FiniteSets, Bags, TLC

\* ---------------------------------------------------------------- bounds
MaxTime == 2        \* the clock runs 0..MaxTime
MaxQueue == 2       \* user events waiting in the OS queue
MaxJobs == 3        \* jobs in the pool at once
MaxActions == 1     \* actions waiting in queue_in
MaxPresses == 2     \* presses the user makes
MaxDefs == 2        \* definitions in the list the manager is built with
MaxThreads == 2     \* threads that obtain the GlobalHotkeyManager
MaxHandles == 5     \* handles the hotkey backend issues

\* ------------------------------------------------------------- constants
\* Config.threshold, in clock ticks, and a threshold set on a shortcut itself
Threshold == 1
OwnThreshold == 2

\* the keys of the configured shortcuts, and a key that no shortcut names
KeyboardNames == {"caps_lock"}
MouseNames == {"x1"}
Names == KeyboardNames \cup MouseNames
OtherKeys == {"a"}
Keys == Names \cup OtherKeys

\* the keyboard shortcuts whose key names a chord, in the order of the
\* configuration
ChordKeys == <<"ctrl+alt+h", "ctrl+h">>

Chords == {ChordKeys[i] : i \in DOMAIN ChordKeys}

\* every task taking Config.threshold
task_threshold_default(k) == Threshold

\* task.threshold = shortcut.get_threshold(Config.threshold): the mouse
\* shortcut sets its own, the others take the default
task_threshold(k) == IF k \in MouseNames THEN OwnThreshold ELSE Threshold

\* Shortcut.is_toggle_key(): the lock keys
ToggleKeys == {"caps_lock"}
is_toggle_key(k) == k \in ToggleKeys

\* the Windows messages of the low-level filters
KEY_DOWN_MESSAGES == {"WM_KEYDOWN", "WM_SYSKEYDOWN"}
KEY_UP_MESSAGES == {"WM_KEYUP", "WM_SYSKEYUP"}
KEYBOARD_MESSAGES == KEY_DOWN_MESSAGES \cup KEY_UP_MESSAGES
MOUSE_MESSAGES == {"WM_XBUTTONDOWN", "WM_XBUTTONUP"}

\* elsewhere the keyboard library calls the press hook ("down") or the
\* release hook ("up") of the key
IsDown(msg) == msg \in KEY_DOWN_MESSAGES \cup {"WM_XBUTTONDOWN", "down"}
IsUp(msg) == msg \in KEY_UP_MESSAGES \cup {"WM_XBUTTONUP", "up"}

None == "None"
NoEvent == [name |-> None, msg |-> None, synth |-> FALSE]

\* no call into the manager has raised
NoError == [by |-> None, what |-> None]

VARIABLES
    isWindows,       \* platform.system() == 'Windows'
    shortcuts,       \* the Trigger Definitions, by key
    phase,           \* "init" (constructed), "running" (after start())
    tasks,           \* ShortcutManager.tasks: key -> ShortcutTask
    emulating_keys,  \* ShortcutEmulator._emulating_keys
    restoring_keys,  \* ShortcutManager._restoring_keys
    pool,            \* the jobs submitted to the pool that have not finished (a bag)
    os_events,       \* events the OS has still to deliver to the hook callback
    cur,             \* the event the hook callback is handling
    dpc,             \* where the hook callback is in it
    held,            \* the keys and buttons the user is holding
    toggled,         \* the OS lock state of each toggle key
    now,             \* time.time()
    queue_in,        \* state.queue_in, the action sink
    last,            \* per task, the last outcome it produced: begin, finish or cancel
    presses,         \* the presses the user has made
    live,            \* what the last keyboard_lib.is_toggled call returned, when observed
    pressed_keys,    \* ShortcutManager._pressed_keys
    combo_active,    \* combo['active'] of each entry of _combo_defs, by combo['key']
    signalled,       \* was the platform told to consume the event last handled, when observed
    keyboard_hooks,  \* the keys of self._keyboard_hooks
    combo_hook,      \* self._combo_hook is not None
    raised,          \* the call into the manager that raised last, and what it raised
    failed,          \* the input classes whose listener could not be started or has died
    pool_shutdown,   \* self._pool.shutdown was called
    gh,              \* the GlobalHotkeyManager
    shortcut_list,   \* the list of Trigger Definitions the manager was built with
    singleton        \* GlobalHotkeyManager._instance, _global_hotkey_manager and the
                     \* threads that are obtaining the manager

combo_vars == <<pressed_keys, combo_active>>
hook_vars == <<keyboard_hooks, combo_hook>>
aux_vars == <<raised, failed, pool_shutdown, gh, shortcut_list, singleton>>

vars == <<isWindows, shortcuts, phase, tasks, emulating_keys, restoring_keys, pool,
          os_events, cur, dpc, held, toggled, now, queue_in, last, presses, live, signalled,
          combo_vars, hook_vars, aux_vars>>

\* ------------------------------------------------------------ definitions

Type(k) == IF k \in MouseNames THEN "mouse" ELSE "keyboard"

Shortcut == [hold_mode : BOOLEAN, suppress : BOOLEAN, enabled : BOOLEAN]

\* a disabled definition has no task: its other fields are never read
ShortcutConfigs ==
    {s \in Shortcut : ~s.enabled => (s.hold_mode /\ ~s.suppress)}

\* ShortcutTask.__init__
NewTask ==
    [task |-> None, recording_start_time |-> 0, is_recording |-> FALSE,
     pressed |-> FALSE, released |-> TRUE, event |-> FALSE,
     toggle_state_at_press |-> None]

\* an entry of the list of Trigger Definitions: the key and its settings
Definition(k, s) ==
    [key |-> k, hold_mode |-> s.hold_mode, suppress |-> s.suppress, enabled |-> s.enabled]

\* the settings of an entry
Settings(d) == [hold_mode |-> d.hold_mode, suppress |-> d.suppress, enabled |-> d.enabled]

\* the list with one definition for each key of order
ListOf(scs, order) == [i \in 1..Len(order) |-> Definition(order[i], scs[order[i]])]

\* the keys of the triggers, in the order of the configuration
NameOrder == <<"caps_lock", "x1">>

\* ShortcutManager._init_tasks
InitTasks(scs) == [k \in {n \in Names : scs[n].enabled} |-> NewTask]

has_keyboard == \E k \in KeyboardNames : shortcuts[k].enabled
has_mouse == \E k \in MouseNames : shortcuts[k].enabled

keyboard_listener ==
    isWindows /\ phase = "running" /\ has_keyboard /\ "keyboard" \notin failed
mouse_listener ==
    isWindows /\ phase = "running" /\ has_mouse /\ "mouse" \notin failed

\* The names whose events reach a callback of the manager: on Windows the
\* low-level filter of each started listener sees every key / every button,
\* elsewhere only the enabled keyboard shortcuts are hooked.
Listened(k) ==
    /\ phase = "running"
    /\ IF isWindows
       THEN IF Type(k) = "keyboard" THEN keyboard_listener ELSE mouse_listener
       ELSE k \in keyboard_hooks /\ "keyboard" \notin failed

Not(s) == IF s = "on" THEN "off" ELSE "on"

\* keyboard_lib.is_toggled: the lock state, or None when the read raises
ToggleReads(k) == IF k \in ToggleKeys THEN {toggled[k], None} ELSE {None}

\* ------------------------------------------------------------ ShortcutTask

\* What one call into a task does: the task afterwards, whether a 'begin' or a
\* 'finish' was put on queue_in, whether the capture was cancelled, whether
\* schedule_restore was called, and the emulation submitted to the pool.
NoEffect(t) ==
    [task |-> t, begin |-> FALSE, finish |-> FALSE, cancelled |-> FALSE,
     restore |-> FALSE, emulate |-> None]

\* _restore_key_if_needed restoring on Windows whatever shortcut.suppress is
_restore_key_if_needed_windows_always(windows, suppress, snapshot, read) ==
    IF windows
    THEN TRUE
    ELSE IF snapshot = None \/ read = None
         THEN TRUE
         ELSE read # snapshot

\* _restore_key_if_needed restoring elsewhere without comparing the lock states
_restore_key_if_needed_when_equal(windows, suppress, snapshot, read) ==
    IF windows
    THEN ~suppress
    ELSE TRUE

\* _restore_key_if_needed only comparing, without the test for None
_restore_key_if_needed_compare_only(windows, suppress, snapshot, read) ==
    IF windows
    THEN ~suppress
    ELSE read # snapshot

\* ShortcutTask._restore_key_if_needed: is _restore_key called?
\* read is the live keyboard_lib.is_toggled, None when it raised.
_restore_key_if_needed(windows, suppress, snapshot, read) ==
    IF windows
    THEN ~suppress
    ELSE IF snapshot = None \/ read = None
         THEN TRUE
         ELSE read # snapshot

\* ShortcutTask.launch; read is keyboard_lib.is_toggled at the press
launch(k, t, time, read) ==
    [NoEffect(t) EXCEPT
        !.task = [t EXCEPT
            !.toggle_state_at_press = IF is_toggle_key(k) /\ ~isWindows THEN read ELSE @,
            !.recording_start_time = time,
            !.is_recording = TRUE,
            !.task = "Future"],
        !.begin = TRUE]

\* cancel without self.task = None
cancel_keeps_handle(k, t, sc, read) ==
    [NoEffect(t) EXCEPT
        !.task = [t EXCEPT !.is_recording = FALSE],
        !.cancelled = TRUE,
        !.restore = /\ is_toggle_key(k)
                    /\ _restore_key_if_needed(isWindows, sc.suppress,
                                              t.toggle_state_at_press, read)]

\* ShortcutTask.cancel
cancel(k, t, sc, read) ==
    [NoEffect(t) EXCEPT
        !.task = [t EXCEPT !.is_recording = FALSE, !.task = None],
        !.cancelled = TRUE,
        !.restore = /\ is_toggle_key(k)
                    /\ _restore_key_if_needed(isWindows, sc.suppress,
                                              t.toggle_state_at_press, read)]

\* finish without self.is_recording = False
finish_keeps_recording(k, t, sc, read) ==
    [NoEffect(t) EXCEPT
        !.finish = TRUE,
        !.restore = /\ is_toggle_key(k)
                    /\ _restore_key_if_needed(isWindows, sc.suppress,
                                              t.toggle_state_at_press, read)]

\* ShortcutTask.finish
finish(k, t, sc, read) ==
    [NoEffect(t) EXCEPT
        !.task = [t EXCEPT !.is_recording = FALSE],
        !.finish = TRUE,
        !.restore = /\ is_toggle_key(k)
                    /\ _restore_key_if_needed(isWindows, sc.suppress,
                                              t.toggle_state_at_press, read)]

\* ------------------------------------------------------ ShortcutEventHandler

\* duration <= task.threshold
IsShortPress_le(duration, threshold) == duration <= threshold

\* duration < task.threshold
IsShortPress(duration, threshold) == duration < threshold

\* the hold-mode branch without the test of task.is_recording
MouseHoldUp_without_recording_test(k, t, sc, time, read) ==
    IF IsShortPress(time - t.recording_start_time, task_threshold(k))
    THEN [cancel(k, t, sc, read) EXCEPT
             !.emulate = IF sc.suppress THEN "emulate_mouse_click" ELSE None]
    ELSE finish(k, t, sc, read)

\* the hold-mode branch of _handle_mouse_keyup
MouseHoldUp(k, t, sc, time, read) ==
    IF ~t.is_recording
    THEN NoEffect(t)
    ELSE IF IsShortPress(time - t.recording_start_time, task_threshold(k))
         THEN [cancel(k, t, sc, read) EXCEPT
                  !.emulate = IF sc.suppress THEN "emulate_mouse_click" ELSE None]
         ELSE finish(k, t, sc, read)

\* the click-mode branch of _handle_mouse_keyup
MouseClickUp(t) ==
    IF t.pressed
    THEN NoEffect([t EXCEPT !.pressed = FALSE, !.released = TRUE, !.event = TRUE])
    ELSE NoEffect(t)

\* _handle_mouse_keyup launching again on the up of a click
_handle_mouse_keyup_click_launches(k, t, sc, time, read) ==
    IF ~sc.hold_mode
    THEN [MouseClickUp(t) EXCEPT !.begin = TRUE]
    ELSE MouseHoldUp(k, t, sc, time, read)

\* _handle_mouse_keyup finishing the recording on the up of a click
_handle_mouse_keyup_click_finishes(k, t, sc, time, read) ==
    IF ~sc.hold_mode
    THEN IF t.pressed
         THEN finish(k, [t EXCEPT !.pressed = FALSE, !.released = TRUE, !.event = TRUE],
                     sc, read)
         ELSE NoEffect(t)
    ELSE MouseHoldUp(k, t, sc, time, read)

\* _handle_mouse_keyup re-pressing without looking at shortcut.suppress
_handle_mouse_keyup_always_emulates(k, t, sc, time, read) ==
    IF ~sc.hold_mode
    THEN MouseClickUp(t)
    ELSE IF ~t.is_recording
         THEN NoEffect(t)
         ELSE IF IsShortPress(time - t.recording_start_time, task_threshold(k))
              THEN [cancel(k, t, sc, read) EXCEPT !.emulate = "emulate_mouse_click"]
              ELSE finish(k, t, sc, read)

\* ShortcutManager._handle_mouse_keyup
_handle_mouse_keyup(k, t, sc, time, read) ==
    IF ~sc.hold_mode
    THEN MouseClickUp(t)
    ELSE MouseHoldUp(k, t, sc, time, read)

\* ShortcutEventHandler.handle_keyup: the keyboard twin of _handle_mouse_keyup,
\* re-pressing through emulate_key
handle_keyup(k, t, sc, time, read) ==
    IF ~sc.hold_mode
    THEN IF t.pressed
         THEN NoEffect([t EXCEPT !.pressed = FALSE, !.released = TRUE, !.event = TRUE])
         ELSE NoEffect(t)
    ELSE IF ~t.is_recording
         THEN NoEffect(t)
         ELSE IF IsShortPress(time - t.recording_start_time, task_threshold(k))
              THEN [cancel(k, t, sc, read) EXCEPT
                       !.emulate = IF sc.suppress THEN "emulate_key" ELSE None]
              ELSE finish(k, t, sc, read)

\* ShortcutEventHandler.handle_keydown: a down while Idle launches the task;
\* click mode also records the press
handle_keydown(k, t, sc, time, read) ==
    IF t.is_recording
    THEN NoEffect(t)
    ELSE LET l == launch(k, t, time, read) IN
         IF sc.hold_mode
         THEN l
         ELSE [l EXCEPT !.task = [@ EXCEPT !.pressed = TRUE, !.released = FALSE]]

\* ------------------------------------------------- the anti-self-capture guards

\* clear_emulating_flag emptying the whole set
clear_emulating_flag_all(emu, key_name) == {}

\* ShortcutEmulator.clear_emulating_flag
clear_emulating_flag(emu, key_name) == emu \ {key_name}

\* clear_restoring_flag leaving the set as it is
clear_restoring_flag_keeps(rest, key) == rest

\* ShortcutManager.clear_restoring_flag
clear_restoring_flag(rest, key) == rest \ {key}

\* _check_emulating clearing on WM_KEYUP only
_check_emulating_keyup_only(emu, key_name, msg, is_mouse) ==
    [hit |-> key_name \in emu,
     clear |-> key_name \in emu /\ msg = "WM_KEYUP"]

\* ShortcutManager._check_emulating: is the event swallowed (hit), and is the
\* flag then cleared (clear)?
_check_emulating(emu, key_name, msg, is_mouse) ==
    [hit |-> key_name \in emu,
     clear |-> /\ key_name \in emu
               /\ IF is_mouse
                  THEN msg = "WM_XBUTTONUP"
                  ELSE msg \in {"WM_KEYUP", "WM_SYSKEYUP"}]

\* the same guard at the head of _keyboard_keydown and _keyboard_keyup
HookCheckEmulating(emu, key_name, msg) ==
    [hit |-> key_name \in emu,
     clear |-> key_name \in emu /\ msg = "up"]

\* _check_restoring clearing on WM_KEYUP only
_check_restoring_keyup_only(rest, key_name, msg) ==
    [hit |-> key_name \in rest,
     clear |-> key_name \in rest /\ msg = "WM_KEYUP"]

\* ShortcutManager._check_restoring
_check_restoring(rest, key_name, msg) ==
    [hit |-> key_name \in rest,
     clear |-> key_name \in rest /\ msg \in {"WM_KEYUP", "WM_SYSKEYUP"}]

\* the restoring guard of _keyboard_keydown and _keyboard_keyup
HookCheckRestoring(rest, key_name, msg) ==
    [hit |-> key_name \in rest,
     clear |-> key_name \in rest /\ msg = "up"]

\* the emulation guard of the path the event arrives on
EmulatingGuard(e) ==
    IF isWindows
    THEN _check_emulating(emulating_keys, e.name, e.msg, Type(e.name) = "mouse")
    ELSE HookCheckEmulating(emulating_keys, e.name, e.msg)

\* the restoring guard of the path the event arrives on: create_mouse_filter
\* has none
RestoringGuard(e) ==
    IF isWindows
    THEN IF Type(e.name) = "mouse"
         THEN [hit |-> FALSE, clear |-> FALSE]
         ELSE _check_restoring(restoring_keys, e.name, e.msg)
    ELSE HookCheckRestoring(restoring_keys, e.name, e.msg)

\* Is the physical event consumed?  The Windows filters call suppress_event
\* after routing to a task whose shortcut has suppress; the keyboard library
\* hooks are registered with suppress=shortcut.suppress, which the backend may
\* or may not honour.
Consumed(e, routed) ==
    IF isWindows
    THEN {/\ routed
          /\ shortcuts[e.name].suppress
          /\ IF Type(e.name) = "mouse" THEN mouse_listener ELSE keyboard_listener}
    ELSE IF shortcuts[e.name].suppress THEN BOOLEAN ELSE {FALSE}

\* the platform told to consume every event
Signalled_always(e, routed) == TRUE

\* the platform told to consume whenever the shortcut of the name has suppress,
\* before the guards are asked
Signalled_before_guards(e, routed) ==
    e.name \in DOMAIN shortcuts /\ shortcuts[e.name].suppress

\* Is the platform told to consume the event?  On Windows the filter calls
\* suppress_event() after routing to a task whose shortcut has suppress; the
\* keyboard library hooks of a key are registered with suppress=shortcut.suppress
\* once, for every event of the key.
Signalled(e, routed) ==
    IF isWindows
    THEN /\ routed
         /\ shortcuts[e.name].suppress
         /\ IF Type(e.name) = "mouse" THEN mouse_listener ELSE keyboard_listener
    ELSE shortcuts[e.name].suppress

\* the lock state after the event: a down of a lock key that is not consumed
\* flips it
Deliver(e, consumed) ==
    IF IsDown(e.msg) /\ e.name \in ToggleKeys /\ ~consumed
    THEN [toggled EXCEPT ![e.name] = Not(@)]
    ELSE toggled

\* GlobalHotkeyManager.__init__
\* the hotkeys in the order of the dictionary, the handle of each, the running
\* flag; and of the backend, the handles issued so far and the registrations alive
\* a call of the manager: the method, its argument and what it returned
Call(op, key_str, ret) == [op |-> op, key_str |-> key_str, ret |-> ret]

\* refused holds the hotkeys for which add_hotkey raised when the listener was
\* last built; call is the last call made
NewHotkeyManager ==
    [hotkeys |-> <<>>, handles |-> <<>>, running |-> FALSE, issued |-> 0, backend |-> {},
     refused |-> {}, call |-> Call(None, None, None)]

\* ---------------------------------------- the GlobalHotkeyManager singleton

Threads == 1..MaxThreads

\* cls._instance and _global_hotkey_manager while they are None
NoInstance == 0

\* nothing was constructed yet: instance is cls._instance, initialized its
\* _initialized, global is _global_hotkey_manager; each thread has a place in
\* the construction (pc), the way it came in (via) and the instance it holds
\* (ref); created counts the instances made, inits the runs of the body of
\* __init__
NotConstructed ==
    [instance |-> NoInstance, initialized |-> FALSE, global |-> NoInstance,
     created |-> 0, inits |-> 0,
     pc |-> [t \in Threads |-> "idle"],
     via |-> [t \in Threads |-> None],
     ref |-> [t \in Threads |-> NoInstance]]

\* the manager was obtained through get_global_hotkey_manager by every thread,
\* one after the other
Constructed ==
    [instance |-> 1, initialized |-> TRUE, global |-> 1,
     created |-> 1, inits |-> 1,
     pc |-> [t \in Threads |-> "done"],
     via |-> [t \in Threads |-> "get"],
     ref |-> [t \in Threads |-> 1]]

\* ------------------------------------------------------------------- Init

\* the manager as constructed, the user holding the keys and buttons in h, the
\* GlobalHotkeyManager obtained as in sg
InitWith(h, sg) ==
    /\ isWindows \in BOOLEAN
    /\ shortcuts \in [Names -> ShortcutConfigs]
    /\ phase = "init"
    /\ tasks = InitTasks(shortcuts)
    /\ emulating_keys = {}
    /\ restoring_keys = {}
    /\ pool = EmptyBag
    /\ os_events = <<>>
    /\ cur = NoEvent
    /\ dpc = "idle"
    /\ held = h
    /\ toggled = [k \in ToggleKeys |-> "off"]
    /\ now = 0
    /\ queue_in = <<>>
    /\ last = [k \in DOMAIN tasks |-> None]
    /\ presses = Cardinality(h)
    /\ live = None
    /\ pressed_keys = {}
    /\ combo_active = <<>>
    /\ signalled = FALSE
    /\ keyboard_hooks = {}
    /\ combo_hook = FALSE
    /\ raised = NoError
    /\ failed = {}
    /\ pool_shutdown = FALSE
    /\ gh = NewHotkeyManager
    /\ singleton = sg
    /\ shortcut_list = ListOf(shortcuts, NameOrder)

\* the manager as constructed, the user holding the keys and buttons in h
InitHolding(h) == InitWith(h, Constructed)

\* the manager as constructed, nothing held
Init == InitHolding({})

\* ------------------------------------------------------------ environment

\* _setup_keyboard_lib_hooks: a press hook and a release hook for every enabled
\* keyboard shortcut that is not a chord; on Windows there are no hooks
HookedKeys ==
    IF isWindows THEN {}
    ELSE {k \in DOMAIN shortcuts : Type(k) = "keyboard" /\ shortcuts[k].enabled
                                    /\ k \notin Chords}

\* ShortcutManager.start
Start ==
    /\ phase = "init"
    /\ phase' = "running"
    /\ keyboard_hooks' = HookedKeys
    /\ UNCHANGED <<isWindows, shortcuts, tasks, emulating_keys, restoring_keys, pool,
                   os_events, cur, dpc, held, toggled, now, queue_in, last, presses, live,
                   signalled, combo_vars, combo_hook, aux_vars>>

DownMsgs(k) ==
    IF ~isWindows THEN {"down"}
    ELSE IF Type(k) = "mouse" THEN {"WM_XBUTTONDOWN"} ELSE KEY_DOWN_MESSAGES

UpMsgs(k) ==
    IF ~isWindows THEN {"up"}
    ELSE IF Type(k) = "mouse" THEN {"WM_XBUTTONUP"} ELSE KEY_UP_MESSAGES

\* the user presses a key or button
UserPress(k) ==
    /\ Listened(k)
    /\ k \notin held
    /\ presses < MaxPresses
    /\ presses' = presses + 1
    /\ Len(os_events) < MaxQueue
    /\ \E m \in DownMsgs(k) :
          os_events' = Append(os_events, [name |-> k, msg |-> m, synth |-> FALSE])
    /\ held' = held \cup {k}
    /\ UNCHANGED <<isWindows, shortcuts, phase, tasks, emulating_keys, restoring_keys,
                   pool, cur, dpc, toggled, now, queue_in, last, live, signalled,
                   combo_vars, hook_vars, aux_vars>>

\* the user releases it
UserRelease(k) ==
    /\ k \in held
    /\ Len(os_events) < MaxQueue
    /\ \E m \in UpMsgs(k) :
          os_events' = Append(os_events, [name |-> k, msg |-> m, synth |-> FALSE])
    /\ held' = held \ {k}
    /\ UNCHANGED <<isWindows, shortcuts, phase, tasks, emulating_keys, restoring_keys,
                   pool, cur, dpc, toggled, now, queue_in, last, presses, live, signalled,
                   combo_vars, hook_vars, aux_vars>>

\* time passes; only the time that passes while a task is recording is ever
\* read (as a duration)
Tick ==
    /\ now < MaxTime
    /\ \E k \in DOMAIN tasks : tasks[k].is_recording
    /\ now' = now + 1
    /\ UNCHANGED <<isWindows, shortcuts, phase, tasks, emulating_keys, restoring_keys,
                   pool, os_events, cur, dpc, held, toggled, queue_in, last, presses, live, signalled,
                   combo_vars, hook_vars, aux_vars>>

\* the consumer of the action sink takes the next action
Consume ==
    /\ queue_in # <<>>
    /\ queue_in' = Tail(queue_in)
    /\ UNCHANGED <<isWindows, shortcuts, phase, tasks, emulating_keys, restoring_keys,
                   pool, os_events, cur, dpc, held, toggled, now, last, presses, live, signalled,
                   combo_vars, hook_vars, aux_vars>>

\* ------------------------------------------------------------- dispatcher

\* The hook callback takes the next event and asks is_emulating.  A hit on a
\* down swallows the event here; a hit on an up goes on to clear the flag.
CheckEmulating(obs) ==
    /\ phase = "running"
    /\ dpc = "idle"
    /\ os_events # <<>>
    /\ LET e == Head(os_events)
           g == EmulatingGuard(e)
       IN  /\ os_events' = Tail(os_events)
           /\ IF g.hit /\ ~g.clear
              THEN /\ cur' = NoEvent
                   /\ dpc' = "idle"
                   /\ \E c \in Consumed(e, FALSE) : toggled' = Deliver(e, c)
                   /\ signalled' = IF obs THEN Signalled(e, FALSE) ELSE signalled
              ELSE /\ cur' = e
                   /\ dpc' = IF g.hit THEN "clear_emulating" ELSE "dispatch"
                   /\ UNCHANGED <<toggled, signalled>>
    /\ UNCHANGED <<isWindows, shortcuts, phase, tasks, emulating_keys, restoring_keys,
                   pool, held, now, queue_in, last, presses, live,
                   combo_vars, hook_vars, aux_vars>>

DispCheckEmulating == CheckEmulating(FALSE)

\* clear_emulating_flag, then return: the event is swallowed
ClearEmulating(obs) ==
    /\ dpc = "clear_emulating"
    /\ emulating_keys' = clear_emulating_flag(emulating_keys, cur.name)
    /\ \E c \in Consumed(cur, FALSE) : toggled' = Deliver(cur, c)
    /\ cur' = NoEvent
    /\ dpc' = "idle"
    /\ signalled' = IF obs THEN Signalled(cur, FALSE) ELSE signalled
    /\ UNCHANGED <<isWindows, shortcuts, phase, tasks, restoring_keys, pool, os_events,
                   held, now, queue_in, last, presses, live,
                   combo_vars, hook_vars, aux_vars>>

DispClearEmulating == ClearEmulating(FALSE)

\* the restoring guard swallows the event, clearing the flag on an up
Restoring(obs) ==
    /\ dpc = "dispatch"
    /\ RestoringGuard(cur).hit
    /\ restoring_keys' = IF RestoringGuard(cur).clear
                         THEN clear_restoring_flag(restoring_keys, cur.name)
                         ELSE restoring_keys
    /\ \E c \in Consumed(cur, FALSE) : toggled' = Deliver(cur, c)
    /\ cur' = NoEvent
    /\ dpc' = "idle"
    /\ signalled' = IF obs THEN Signalled(cur, FALSE) ELSE signalled
    /\ UNCHANGED <<isWindows, shortcuts, phase, tasks, emulating_keys, pool, os_events,
                   held, now, queue_in, last, presses, live,
                   combo_vars, hook_vars, aux_vars>>

DispRestoring == Restoring(FALSE)

\* no task for the name: the event passes
Ignore(obs) ==
    /\ dpc = "dispatch"
    /\ ~RestoringGuard(cur).hit
    /\ cur.name \notin DOMAIN tasks
    /\ \E c \in Consumed(cur, FALSE) : toggled' = Deliver(cur, c)
    /\ cur' = NoEvent
    /\ dpc' = "idle"
    /\ signalled' = IF obs THEN Signalled(cur, FALSE) ELSE signalled
    /\ UNCHANGED <<isWindows, shortcuts, phase, tasks, emulating_keys, restoring_keys,
                   pool, os_events, held, now, queue_in, last, presses, live,
                   combo_vars, hook_vars, aux_vars>>

DispIgnore == Ignore(FALSE)

\* the jobs an effect submits: schedule_restore's do_restore, then the re-press
Submitted(k, eff) ==
    (IF eff.restore
     THEN SetToBag({[kind |-> "do_restore", key |-> k, pc |-> "sleep"]})
     ELSE EmptyBag)
    (+)
    (IF eff.emulate # None
     THEN SetToBag({[kind |-> eff.emulate, key |-> k, pc |-> "add"]})
     ELSE EmptyBag)

\* the actions an effect puts on queue_in
Emitted(eff) ==
    IF eff.begin THEN <<[type |-> "begin", time |-> eff.task.recording_start_time]>>
    ELSE IF eff.finish THEN <<[type |-> "finish", time |-> now]>>
    ELSE <<>>

Outcome(eff, prev) ==
    IF eff.begin THEN "begin"
    ELSE IF eff.finish THEN "finish"
    ELSE IF eff.cancelled THEN "cancel"
    ELSE prev

\* cancel() runs self.task.cancel() while self.task is None: AttributeError
CancelRaises(t, eff) == eff.cancelled /\ t.task = None

\* self._pool.submit after self._pool.shutdown: RuntimeError
SubmitRaises(k, eff) == pool_shutdown /\ Submitted(k, eff) # EmptyBag

\* the event is routed to its task, and the task's effect takes place
Route(eff) ==
    LET k == cur.name IN
    /\ ~CancelRaises(tasks[k], eff)
    /\ ~SubmitRaises(k, eff)
    /\ BagCardinality(pool (+) Submitted(k, eff)) <= MaxJobs
    /\ Len(queue_in) + Len(Emitted(eff)) <= MaxActions
    /\ tasks' = [tasks EXCEPT ![k] = eff.task]
    /\ queue_in' = queue_in \o Emitted(eff)
    /\ restoring_keys' = IF eff.restore THEN restoring_keys \cup {k} ELSE restoring_keys
    /\ pool' = pool (+) Submitted(k, eff)
    /\ last' = [last EXCEPT ![k] = Outcome(eff, @)]
    /\ \E c \in Consumed(cur, TRUE) : toggled' = Deliver(cur, c)
    /\ cur' = NoEvent
    /\ dpc' = "idle"
    /\ UNCHANGED <<isWindows, shortcuts, phase, emulating_keys, os_events, held, now,
                   presses, combo_vars, hook_vars, aux_vars>>

\* a down reaches handle_keydown; read is what is_toggled returns to it
KeyDown(read) ==
    /\ dpc = "dispatch"
    /\ ~RestoringGuard(cur).hit
    /\ cur.name \in DOMAIN tasks
    /\ IsDown(cur.msg)
    /\ Route(handle_keydown(cur.name, tasks[cur.name], shortcuts[cur.name], now, read))

\* an up reaches handle_keyup (keyboard) or _handle_mouse_keyup (mouse)
KeyUp(read) ==
    /\ dpc = "dispatch"
    /\ ~RestoringGuard(cur).hit
    /\ cur.name \in DOMAIN tasks
    /\ IsUp(cur.msg)
    /\ Route(IF Type(cur.name) = "mouse"
             THEN _handle_mouse_keyup(cur.name, tasks[cur.name], shortcuts[cur.name],
                                      now, read)
             ELSE handle_keyup(cur.name, tasks[cur.name], shortcuts[cur.name],
                               now, read))

DispKeyDown ==
    \E read \in ToggleReads(cur.name) : KeyDown(read) /\ UNCHANGED <<live, signalled>>

DispKeyUp ==
    \E read \in ToggleReads(cur.name) : KeyUp(read) /\ UNCHANGED <<live, signalled>>

\* ------------------------------------------------------------ pool workers

Replace(j, pc) == (pool (-) SetToBag({j})) (+) SetToBag({[j EXCEPT !.pc = pc]})
Finished(j) == pool (-) SetToBag({j})

\* do_restore: time.sleep(0.05) returns
RestoreSleep(j) ==
    /\ j.kind = "do_restore" /\ j.pc = "sleep"
    /\ pool' = Replace(j, "add")
    /\ UNCHANGED <<isWindows, shortcuts, phase, tasks, emulating_keys, restoring_keys,
                   os_events, cur, dpc, held, toggled, now, queue_in, last, presses, live, signalled,
                   combo_vars, hook_vars, aux_vars>>

\* emulate_key / emulate_mouse_click: self._emulating_keys.add; emulate_mouse_click
\* ends here
EmulateAdd(j) ==
    /\ j.pc = "add"
    /\ emulating_keys' = emulating_keys \cup {j.key}
    /\ pool' = IF j.kind = "emulate_mouse_click" THEN Finished(j) ELSE Replace(j, "press")
    /\ UNCHANGED <<isWindows, shortcuts, phase, tasks, restoring_keys,
                   os_events, cur, dpc, held, toggled, now, queue_in, last, presses, live, signalled,
                   combo_vars, hook_vars, aux_vars>>

AfterEmulate(j) == IF j.kind = "do_restore" THEN Replace(j, "clear") ELSE Finished(j)

\* keyboard_lib.press_and_release sends the down
EmulatePress(j) ==
    /\ j.pc = "press"
    /\ os_events' = Append(os_events,
                       [name |-> j.key, msg |-> IF isWindows THEN "WM_KEYDOWN" ELSE "down",
                        synth |-> TRUE])
    /\ pool' = Replace(j, "release")
    /\ UNCHANGED <<isWindows, shortcuts, phase, tasks, emulating_keys, restoring_keys,
                   cur, dpc, held, toggled, now, queue_in, last, presses, live, signalled,
                   combo_vars, hook_vars, aux_vars>>

\* keyboard_lib.press_and_release raises before anything is sent: the except
\* clause is entered
EmulateFail(j) ==
    /\ j.pc = "press"
    /\ pool' = Replace(j, "except")
    /\ UNCHANGED <<isWindows, shortcuts, phase, tasks, emulating_keys, restoring_keys,
                   os_events, cur, dpc, held, toggled, now, queue_in, last, presses, live, signalled,
                   combo_vars, hook_vars, aux_vars>>

\* the except clause logs the failure and emulate_key returns, the name still
\* in _emulating_keys
EmulateExcept(j) ==
    /\ j.pc = "except"
    /\ pool' = AfterEmulate(j)
    /\ UNCHANGED <<isWindows, shortcuts, phase, tasks, emulating_keys, restoring_keys,
                   os_events, cur, dpc, held, toggled, now, queue_in, last, presses, live, signalled,
                   combo_vars, hook_vars, aux_vars>>

\* keyboard_lib.press_and_release sends the up and returns
EmulateRelease(j) ==
    /\ j.pc = "release"
    /\ os_events' = Append(os_events,
                       [name |-> j.key, msg |-> IF isWindows THEN "WM_KEYUP" ELSE "up",
                        synth |-> TRUE])
    /\ pool' = AfterEmulate(j)
    /\ UNCHANGED <<isWindows, shortcuts, phase, tasks, emulating_keys, restoring_keys,
                   cur, dpc, held, toggled, now, queue_in, last, presses, live, signalled,
                   combo_vars, hook_vars, aux_vars>>

\* do_restore: clear_restoring_flag
RestoreClear(j) ==
    /\ j.kind = "do_restore" /\ j.pc = "clear"
    /\ restoring_keys' = clear_restoring_flag(restoring_keys, j.key)
    /\ pool' = Finished(j)
    /\ UNCHANGED <<isWindows, shortcuts, phase, tasks, emulating_keys,
                   os_events, cur, dpc, held, toggled, now, queue_in, last, presses, live, signalled,
                   combo_vars, hook_vars, aux_vars>>

\* ------------------------------------------------------------------- Next

Dispatch ==
    \/ DispCheckEmulating
    \/ DispClearEmulating
    \/ DispRestoring
    \/ DispIgnore
    \/ DispKeyDown
    \/ DispKeyUp

Workers ==
    \/ \E j \in BagToSet(pool) : RestoreSleep(j)
    \/ \E j \in BagToSet(pool) : EmulateAdd(j)
    \/ \E j \in BagToSet(pool) : EmulatePress(j)
    \/ \E j \in BagToSet(pool) : EmulateFail(j)
    \/ \E j \in BagToSet(pool) : EmulateExcept(j)
    \/ \E j \in BagToSet(pool) : EmulateRelease(j)
    \/ \E j \in BagToSet(pool) : RestoreClear(j)

Next ==
    \/ Start
    \/ \E k \in Keys : UserPress(k)
    \/ \E k \in Keys : UserRelease(k)
    \/ Tick
    \/ Consume
    \/ Dispatch
    \/ Workers

Spec == Init /\ [][Next]_vars

\* The hook thread and the pool workers run whenever they can, the consumer of
\* queue_in keeps consuming, and the user lets go of every key pressed.
FairSpec ==
    /\ Spec
    /\ WF_vars(Dispatch)
    /\ WF_vars(Workers)
    /\ WF_vars(Consume)
    /\ \A k \in Keys : WF_vars(UserRelease(k))

\* ------------------------------------------------- one user action at a time

\* nothing of the user's earlier actions is still in flight: no event is waiting
\* or being handled, the pool is idle and the action sink is empty
Quiet == os_events = <<>> /\ dpc = "idle" /\ pool = EmptyBag /\ queue_in = <<>>

\* the user presses a key or button once everything before it has settled
QuietPress(k) ==
    /\ Listened(k)
    /\ held = {}
    /\ Quiet
    /\ \E m \in DownMsgs(k) :
          os_events' = Append(os_events, [name |-> k, msg |-> m, synth |-> FALSE])
    /\ held' = held \cup {k}
    /\ UNCHANGED <<isWindows, shortcuts, phase, tasks, emulating_keys, restoring_keys,
                   pool, cur, dpc, toggled, now, queue_in, last, presses, live, signalled,
                   combo_vars, hook_vars, aux_vars>>

\* and releases it once the press has been handled
QuietRelease(k) == Quiet /\ UserRelease(k)

\* the guards, with what the platform was told about the event kept in signalled
ObsCheckEmulating == CheckEmulating(TRUE)
ObsClearEmulating == ClearEmulating(TRUE)
ObsRestoring == Restoring(TRUE)
ObsIgnore == Ignore(TRUE)

\* DispKeyDown, with the value is_toggled returned kept in live
ObsKeyDown ==
    \E read \in ToggleReads(cur.name) :
       KeyDown(read) /\ live' = read /\ signalled' = Signalled(cur, TRUE)

\* DispKeyUp, with the value is_toggled returned kept in live
ObsKeyUp ==
    \E read \in ToggleReads(cur.name) :
       KeyUp(read) /\ live' = read /\ signalled' = Signalled(cur, TRUE)

SerialNext ==
    \/ Start
    \/ \E k \in Keys : QuietPress(k)
    \/ \E k \in Keys : QuietRelease(k)
    \/ Tick
    \/ Consume
    \/ ObsCheckEmulating
    \/ ObsClearEmulating
    \/ ObsRestoring
    \/ ObsIgnore
    \/ ObsKeyDown
    \/ ObsKeyUp
    \/ Workers

\* The manager under a user who acts one step at a time: the same handlers and
\* workers, each press made only when the previous actions have settled.
SerialSpec == Init /\ [][SerialNext]_vars

\* ------------------------------------------- start, stop and what can raise

\* start() on Windows with the listener of class c failing to start: the
\* exception leaves start() at once, so a keyboard failure also skips the mouse
\* listener created after it.  Elsewhere only the keyboard hooks can fail;
\* the error is logged and raised again.
StartFails(c) ==
    /\ phase = "init"
    /\ IF c = "keyboard" THEN has_keyboard ELSE has_mouse /\ isWindows
    /\ phase' = "running"
    /\ failed' = IF c = "keyboard" /\ isWindows /\ has_mouse
                 THEN {"keyboard", "mouse"}
                 ELSE {c}
    /\ raised' = [by |-> "start", what |-> c]
    /\ UNCHANGED <<isWindows, shortcuts, tasks, emulating_keys, restoring_keys, pool,
                   os_events, cur, dpc, held, toggled, now, queue_in, last, presses, live,
                   signalled, combo_vars, hook_vars, pool_shutdown, gh,
                   shortcut_list, singleton>>

\* the loop of stop() over self.tasks.values(): every recording task is
\* cancelled, until a cancel raises.  acc holds the tasks, the Restoring Set,
\* the pool, the names cancelled and the exception so far.
RECURSIVE StopTasks(_, _, _)
StopTasks(order, read, acc) ==
    IF order = <<>> \/ acc.what # None
    THEN acc
    ELSE LET k == Head(order)
             t == acc.tasks[k]
             eff == cancel(k, t, shortcuts[k], read)
         IN  IF ~t.is_recording
             THEN StopTasks(Tail(order), read, acc)
             ELSE IF t.task = None
             THEN [acc EXCEPT !.tasks[k].is_recording = FALSE,
                              !.cancelled = @ \cup {k},
                              !.what = "AttributeError"]
             ELSE IF eff.restore /\ pool_shutdown
             THEN [acc EXCEPT !.tasks[k] = eff.task,
                              !.cancelled = @ \cup {k},
                              !.restoring = @ \cup {k},
                              !.what = "RuntimeError"]
             ELSE StopTasks(Tail(order), read,
                     [acc EXCEPT !.tasks[k] = eff.task,
                                 !.cancelled = @ \cup {k},
                                 !.restoring = IF eff.restore THEN @ \cup {k} ELSE @,
                                 !.pool = @ (+) Submitted(k, eff)])

\* the orders in which a dictionary of these names can be walked
Orders(names) ==
    {o \in UNION {[1..n -> names] : n \in 0..Cardinality(names)} :
        /\ Len(o) = Cardinality(names)
        /\ \A i, j \in 1..Len(o) : i # j => o[i] # o[j]}

\* ShortcutManager.stop
Stop ==
    /\ \E order \in Orders(DOMAIN tasks), read \in ToggleReads("caps_lock") :
          LET r == StopTasks(order, read,
                             [tasks |-> tasks, restoring |-> restoring_keys,
                              pool |-> pool, cancelled |-> {}, what |-> None])
          IN  /\ BagCardinality(r.pool) <= MaxJobs
              /\ tasks' = r.tasks
              /\ restoring_keys' = r.restoring
              /\ pool' = r.pool
              /\ last' = [k \in DOMAIN last |->
                             IF k \in r.cancelled THEN "cancel" ELSE last[k]]
              /\ pool_shutdown' = (pool_shutdown \/ r.what = None)
              /\ raised' = [by |-> "stop", what |-> r.what]
    /\ phase' = "stopped"
    /\ keyboard_hooks' = {}
    /\ combo_hook' = FALSE
    /\ UNCHANGED <<isWindows, shortcuts, emulating_keys, os_events, cur, dpc, held,
                   toggled, now, queue_in, presses, live, signalled, combo_vars,
                   failed, gh, shortcut_list, singleton>>

\* An exception leaves the callback: suppress_event is not reached, and the
\* listener that called the filter may stop listening.
Escapes(what) ==
    /\ raised' = [by |-> "callback", what |-> what]
    /\ failed' \in {failed, failed \cup {Type(cur.name)}}
    /\ toggled' = Deliver(cur, FALSE)
    /\ cur' = NoEvent
    /\ dpc' = "idle"
    /\ UNCHANGED <<isWindows, shortcuts, phase, emulating_keys, os_events, held, now,
                   presses, live, signalled, combo_vars, hook_vars, pool_shutdown, gh,
                   shortcut_list, singleton>>

\* launch raises after self.is_recording = True (the event loop is closed, the
\* recorder cannot be built): the handle is not assigned; the 'begin' was put
\* on queue_in or not, depending on the call that raised
LaunchRaises ==
    /\ dpc = "dispatch"
    /\ ~RestoringGuard(cur).hit
    /\ cur.name \in DOMAIN tasks
    /\ IsDown(cur.msg)
    /\ \E read \in ToggleReads(cur.name), put \in BOOLEAN :
          LET k == cur.name
              eff == handle_keydown(k, tasks[k], shortcuts[k], now, read)
          IN  /\ eff.begin
              /\ Len(queue_in) + (IF put THEN 1 ELSE 0) <= MaxActions
              /\ tasks' = [tasks EXCEPT ![k] = [eff.task EXCEPT !.task = tasks[k].task]]
              /\ queue_in' = IF put THEN queue_in \o Emitted(eff) ELSE queue_in
              /\ last' = [last EXCEPT ![k] = IF put THEN "begin" ELSE @]
    /\ Escapes("launch")
    /\ UNCHANGED <<restoring_keys, pool>>

\* the effect of the up that the handler of the event computes
UpEffect(read) ==
    IF Type(cur.name) = "mouse"
    THEN _handle_mouse_keyup(cur.name, tasks[cur.name], shortcuts[cur.name], now, read)
    ELSE handle_keyup(cur.name, tasks[cur.name], shortcuts[cur.name], now, read)

\* a short up after a failed launch: cancel() goes as far as self.task.cancel()
CancelFails ==
    /\ dpc = "dispatch"
    /\ ~RestoringGuard(cur).hit
    /\ cur.name \in DOMAIN tasks
    /\ IsUp(cur.msg)
    /\ \E read \in ToggleReads(cur.name) : CancelRaises(tasks[cur.name], UpEffect(read))
    /\ tasks' = [tasks EXCEPT ![cur.name].is_recording = FALSE]
    /\ last' = [last EXCEPT ![cur.name] = "cancel"]
    /\ Escapes("AttributeError")
    /\ UNCHANGED <<restoring_keys, pool, queue_in>>

LifeNext ==
    \/ Start
    \/ \E c \in {"keyboard", "mouse"} : StartFails(c)
    \/ Stop
    \/ \E k \in Keys : Quiet /\ held = {} /\ UserPress(k)
    \/ \E k \in Keys : QuietRelease(k)
    \/ Tick
    \/ Consume
    \/ DispCheckEmulating
    \/ DispClearEmulating
    \/ DispRestoring
    \/ DispIgnore
    \/ DispKeyDown
    \/ DispKeyUp
    \/ LaunchRaises
    \/ CancelFails
    \/ Workers

\* The manager from start() to stop(), with the calls that can raise raising:
\* MaxPresses presses made one at a time, stop() called at any moment and more
\* than once.
LifeSpec == Init /\ [][LifeNext]_vars

\* ------------------------------------------- keys held when start() is called

\* the user is holding the mouse button when the manager is built and
\* started: its down was never seen
HeldInit == InitHolding(MouseNames)

\* the manager is started first; then everything goes as in Spec
HeldNext ==
    \/ Start
    \/ phase = "running" /\ Next

HeldSpec == HeldInit /\ [][HeldNext]_vars

\* ------------------------------------------- any list of Trigger Definitions

\* the lists the manager is built with: up to MaxDefs definitions, keys repeated
\* or missing as the configuration has them
Definitions == {Definition(k, s) : k \in Names, s \in ShortcutConfigs}
DefLists == UNION {[1..n -> Definitions] : n \in 0..MaxDefs}

\* _init_tasks keeping the first enabled definition of a key
_init_tasks_first_wins(list) ==
    [k \in {list[i].key : i \in {j \in 1..Len(list) : list[j].enabled}} |->
        CHOOSE i \in 1..Len(list) :
           /\ list[i].key = k /\ list[i].enabled
           /\ \A j \in 1..(i - 1) : ~(list[j].key = k /\ list[j].enabled)]

\* the loop of _init_tasks from entry i on: acc is self.tasks, holding for each
\* key the entry its task was built for
RECURSIVE InitLoop(_, _, _)
InitLoop(list, i, acc) ==
    IF i > Len(list)
    THEN acc
    ELSE IF ~list[i].enabled
         THEN InitLoop(list, i + 1, acc)
         ELSE InitLoop(list, i + 1,
                       [k \in DOMAIN acc \cup {list[i].key} |->
                           IF k = list[i].key THEN i ELSE acc[k]])

\* ShortcutManager._init_tasks: self.tasks[shortcut.key] = task for every
\* enabled entry, in the order of the list
_init_tasks(list) == InitLoop(list, 1, <<>>)

\* The manager built with any list: the task of a key works with the
\* definition it was built for (task.shortcut); a key without a task is as good
\* as disabled.  Off Windows an enabled key listed twice would be hooked twice;
\* such lists are followed on Windows only.
ListInit ==
    /\ isWindows \in BOOLEAN
    /\ shortcut_list \in DefLists
    /\ isWindows \/ \A i, j \in 1..Len(shortcut_list) :
                       (/\ shortcut_list[i].enabled /\ shortcut_list[j].enabled
                        /\ shortcut_list[i].key = shortcut_list[j].key) => i = j
    /\ LET built == _init_tasks(shortcut_list) IN
          /\ tasks = [k \in DOMAIN built |-> NewTask]
          /\ shortcuts = [k \in Names |->
                            IF k \in DOMAIN built
                            THEN Settings(shortcut_list[built[k]])
                            ELSE [hold_mode |-> TRUE, suppress |-> FALSE,
                                  enabled |-> FALSE]]
    /\ phase = "init"
    /\ emulating_keys = {}
    /\ restoring_keys = {}
    /\ pool = EmptyBag
    /\ os_events = <<>>
    /\ cur = NoEvent
    /\ dpc = "idle"
    /\ held = {}
    /\ toggled = [k \in ToggleKeys |-> "off"]
    /\ now = 0
    /\ queue_in = <<>>
    /\ last = [k \in DOMAIN tasks |-> None]
    /\ presses = 0
    /\ live = None
    /\ pressed_keys = {}
    /\ combo_active = <<>>
    /\ signalled = FALSE
    /\ keyboard_hooks = {}
    /\ combo_hook = FALSE
    /\ raised = NoError
    /\ failed = {}
    /\ pool_shutdown = FALSE
    /\ gh = NewHotkeyManager
    /\ singleton = Constructed

\* the same user and the same handlers as SerialSpec, from any list
ListSpec == ListInit /\ [][SerialNext]_vars

\* ------------------------------------------------------ GlobalHotkeyManager

\* the hotkey strings registered, as the characters they are made of: '<esc>',
\* '<Control>+h', 'ctrl+h' and a blank one
HotkeyStrings ==
    {<<"<", "e", "s", "c", ">">>,
     <<"<", "C", "o", "n", "t", "r", "o", "l", ">", "+", "h">>,
     <<"c", "t", "r", "l", "+", "h">>,
     <<" ">>}

\* str.strip
RECURSIVE Strip(_)
Strip(s) ==
    IF s = <<>> THEN s
    ELSE IF Head(s) = " " THEN Strip(Tail(s))
    ELSE IF s[Len(s)] = " " THEN Strip(SubSeq(s, 1, Len(s) - 1))
    ELSE s

\* str.lower, on the capitals that occur
LowerChars(s) ==
    [i \in 1..Len(s) |-> CASE s[i] = "C" -> "c" [] s[i] = "H" -> "h" [] OTHER -> s[i]]

\* str.replace(old, new)
RECURSIVE Replaced(_, _, _)
Replaced(s, old, new) ==
    IF Len(s) < Len(old) THEN s
    ELSE IF SubSeq(s, 1, Len(old)) = old
         THEN new \o Replaced(SubSeq(s, Len(old) + 1, Len(s)), old, new)
         ELSE <<Head(s)>> \o Replaced(Tail(s), old, new)

\* GlobalHotkeyManager._normalize_hotkey
_normalize_hotkey(key_str) ==
    LET a == LowerChars(Strip(key_str))
        b == Replaced(Replaced(a, <<"<">>, <<>>), <<">">>, <<>>)
        c == Replaced(b, <<"c", "m", "d">>, <<"w", "i", "n", "d", "o", "w", "s">>)
        d == Replaced(c, <<"c", "o", "m", "m", "a", "n", "d">>,
                      <<"w", "i", "n", "d", "o", "w", "s">>)
        e == Replaced(d, <<"c", "o", "n", "t", "r", "o", "l">>, <<"c", "t", "r", "l">>)
    IN  IF a = <<>> THEN <<>> ELSE Replaced(e, <<" ">>, <<>>)

\* what _normalize_hotkey returns for each of the hotkey strings
Normalized == [key_str \in HotkeyStrings |-> _normalize_hotkey(key_str)]

\* the loop of _restart_listener and of stop(): every handle is given to
\* keyboard_lib.remove_hotkey, then self._handles.clear()
\* the handle map cleared without a call of remove_hotkey
RemoveHandles_without_remove(g) == [g EXCEPT !.handles = <<>>, !.refused = {}]

RemoveHandles(g) ==
    [g EXCEPT !.backend = {r \in @ : \A k \in DOMAIN g.handles : r.handle # g.handles[k]},
              !.handles = <<>>,
              !.refused = {}]

\* _restart_listener removing and adding nothing
_start_listener_keeps(g, keys, fails) == g

\* GlobalHotkeyManager._start_listener from the hotkeys in keys on, in the order
\* of the dictionary: a hotkey that normalizes to nothing is skipped; add_hotkey
\* returns a new handle, or raises for the hotkeys in fails and is logged
RECURSIVE _start_listener(_, _, _)
_start_listener(g, keys, fails) ==
    IF keys = <<>>
    THEN g
    ELSE LET key_str == Head(keys)
             normalized == Normalized[key_str]
             handle == g.issued + 1
         IN  IF normalized = <<>>
             THEN _start_listener(g, Tail(keys), fails)
             ELSE IF key_str \in fails
             THEN _start_listener([g EXCEPT !.refused = @ \cup {key_str}],
                                  Tail(keys), fails)
             ELSE _start_listener(
                     [g EXCEPT !.issued = handle,
                               !.backend = @ \cup {[handle |-> handle, hotkey |-> normalized,
                                                     key_str |-> key_str]},
                               !.handles = [k \in DOMAIN @ \cup {key_str} |->
                                               IF k = key_str THEN handle ELSE @[k]]],
                     Tail(keys), fails)

\* GlobalHotkeyManager._restart_listener
_restart_listener(g, fails) ==
    LET cleared == RemoveHandles(g) IN
    IF cleared.running /\ cleared.hotkeys # <<>>
    THEN _start_listener(cleared, cleared.hotkeys, fails)
    ELSE cleared

\* the hotkeys as a set
Registered(g) == {g.hotkeys[i] : i \in 1..Len(g.hotkeys)}

\* only gh changes
HotkeyFrame ==
    UNCHANGED <<isWindows, shortcuts, phase, tasks, emulating_keys, restoring_keys, pool,
                os_events, cur, dpc, held, toggled, now, queue_in, last, presses, live,
                signalled, combo_vars, hook_vars, raised, failed, pool_shutdown,
                shortcut_list, singleton>>

\* GlobalHotkeyManager.register: a key already in the dictionary keeps its place
register(key_str, fails) ==
    /\ key_str \in HotkeyStrings
    /\ LET g == [gh EXCEPT !.hotkeys = IF key_str \in Registered(gh) THEN @
                                       ELSE Append(@, key_str),
                           !.call = Call("register", key_str, None)]
           after == IF g.running THEN _restart_listener(g, fails) ELSE g
       IN  /\ after.issued <= MaxHandles
           /\ gh' = after
    /\ HotkeyFrame

\* unregister leaving the listener as it is
unregister_without_restart(key_str, fails) ==
    /\ key_str \in HotkeyStrings
    /\ gh' = [gh EXCEPT !.hotkeys = SelectSeq(@, LAMBDA k : k # key_str),
                        !.call = Call("unregister", key_str, key_str \in Registered(gh))]
    /\ HotkeyFrame

\* GlobalHotkeyManager.unregister
unregister(key_str, fails) ==
    /\ key_str \in HotkeyStrings
    /\ LET g == [gh EXCEPT !.hotkeys = SelectSeq(@, LAMBDA k : k # key_str),
                           !.call = Call("unregister", key_str, key_str \in Registered(gh))]
           after == IF key_str \in Registered(gh) /\ g.running
                    THEN _restart_listener(g, fails)
                    ELSE g
       IN  /\ after.issued <= MaxHandles
           /\ gh' = after
    /\ HotkeyFrame

\* start without the test of self._running
HotkeyStart_without_running_test(fails) ==
    /\ fails \subseteq HotkeyStrings
    /\ LET g == [gh EXCEPT !.call = Call("start", None, None)]
           after == IF g.hotkeys = <<>>
                    THEN g
                    ELSE _start_listener([g EXCEPT !.running = TRUE], g.hotkeys, fails)
       IN  /\ after.issued <= MaxHandles
           /\ gh' = after
    /\ HotkeyFrame

\* GlobalHotkeyManager.start
HotkeyStart(fails) ==
    /\ fails \subseteq HotkeyStrings
    /\ LET g == [gh EXCEPT !.call = Call("start", None, None)]
           after == IF g.running \/ g.hotkeys = <<>>
                    THEN g
                    ELSE _start_listener([g EXCEPT !.running = TRUE], g.hotkeys, fails)
       IN  /\ after.issued <= MaxHandles
           /\ gh' = after
    /\ HotkeyFrame

\* GlobalHotkeyManager.stop
HotkeyStop ==
    /\ gh' = RemoveHandles([gh EXCEPT !.running = FALSE, !.call = Call("stop", None, None)])
    /\ HotkeyFrame

HotkeyNext ==
    \/ \E key_str \in HotkeyStrings :
          \E fails \in SUBSET (Registered(gh) \cup {key_str}) : register(key_str, fails)
    \/ \E key_str \in HotkeyStrings, fails \in SUBSET Registered(gh) :
          unregister(key_str, fails)
    \/ \E fails \in SUBSET Registered(gh) : HotkeyStart(fails)
    \/ HotkeyStop

\* the GlobalHotkeyManager under any sequence of calls, beside a ShortcutManager
\* that was built and is left alone
HotkeyInit ==
    /\ Init
    /\ isWindows = TRUE
    /\ \A k \in Names : shortcuts[k].enabled = FALSE

HotkeySpec == HotkeyInit /\ [][HotkeyNext]_vars

\* --------------------------------- obtaining the GlobalHotkeyManager, by threads

\* only singleton and gh change
SingletonFrame ==
    UNCHANGED <<isWindows, shortcuts, phase, tasks, emulating_keys, restoring_keys, pool,
                os_events, cur, dpc, held, toggled, now, queue_in, last, presses, live,
                signalled, combo_vars, hook_vars, raised, failed, pool_shutdown,
                shortcut_list>>

\* thread t is at place at of the construction and moves on to place to
Goes(t, at, to) ==
    /\ singleton.pc[t] = at
    /\ singleton' = [singleton EXCEPT !.pc[t] = to]

\* where a thread goes when __init__ returns: back into
\* get_global_hotkey_manager, or to its caller
Returns(t) == IF singleton.via[t] = "get" THEN "assign" ELSE "done"

\* thread t calls GlobalHotkeyManager()
GlobalHotkeyManager(t) ==
    /\ singleton.pc[t] = "idle"
    /\ singleton' = [singleton EXCEPT !.pc[t] = "new", !.via[t] = "constructor"]
    /\ UNCHANGED gh
    /\ SingletonFrame

\* thread t calls get_global_hotkey_manager: the test of the module global,
\* made without a lock
get_global_hotkey_manager(t) ==
    /\ singleton.pc[t] = "idle"
    /\ singleton' = IF singleton.global = NoInstance
                    THEN [singleton EXCEPT !.pc[t] = "new", !.via[t] = "get"]
                    ELSE [singleton EXCEPT !.pc[t] = "done", !.via[t] = "get",
                                           !.ref[t] = singleton.global]
    /\ UNCHANGED gh
    /\ SingletonFrame

\* GlobalHotkeyManager.__new__, the whole of it under cls._lock
__new__(t) ==
    /\ singleton.pc[t] = "new"
    /\ singleton' =
          IF singleton.instance = NoInstance
          THEN [singleton EXCEPT !.instance = singleton.created + 1,
                                 !.created = @ + 1,
                                 !.initialized = FALSE,
                                 !.ref[t] = singleton.created + 1,
                                 !.pc[t] = "init"]
          ELSE [singleton EXCEPT !.ref[t] = singleton.instance, !.pc[t] = "init"]
    /\ UNCHANGED gh
    /\ SingletonFrame

\* GlobalHotkeyManager.__init__: if self._initialized: return
__init__test(t) ==
    /\ singleton.pc[t] = "init"
    /\ singleton' = [singleton EXCEPT
                        !.pc[t] = IF singleton.initialized THEN Returns(t) ELSE "hotkeys"]
    /\ UNCHANGED gh
    /\ SingletonFrame

\* self._hotkeys = {}
__init__hotkeys(t) ==
    /\ Goes(t, "hotkeys", "handles")
    /\ gh' = [gh EXCEPT !.hotkeys = <<>>]
    /\ SingletonFrame

\* self._handles = {}
__init__handles(t) ==
    /\ Goes(t, "handles", "running")
    /\ gh' = [gh EXCEPT !.handles = <<>>]
    /\ SingletonFrame

\* self._running = False
__init__running(t) ==
    /\ Goes(t, "running", "initialized")
    /\ gh' = [gh EXCEPT !.running = FALSE]
    /\ SingletonFrame

\* self._initialized = True, and __init__ returns
__init__initialized(t) ==
    /\ singleton.pc[t] = "initialized"
    /\ singleton' = [singleton EXCEPT !.initialized = TRUE, !.inits = @ + 1,
                                      !.pc[t] = Returns(t)]
    /\ UNCHANGED gh
    /\ SingletonFrame

\* _global_hotkey_manager = GlobalHotkeyManager(), and the function returns it
get_global_hotkey_manager_assign(t) ==
    /\ singleton.pc[t] = "assign"
    /\ singleton' = [singleton EXCEPT !.global = singleton.ref[t], !.pc[t] = "done"]
    /\ UNCHANGED gh
    /\ SingletonFrame

\* the hotkey the threads register
EscKey == <<"<", "e", "s", "c", ">">>

\* some thread holds the manager and may call it
Obtained == \E t \in Threads : singleton.pc[t] = "done"

SingletonNext ==
    \/ \E t \in Threads : GlobalHotkeyManager(t)
    \/ \E t \in Threads : get_global_hotkey_manager(t)
    \/ \E t \in Threads : __new__(t)
    \/ \E t \in Threads : __init__test(t)
    \/ \E t \in Threads : __init__hotkeys(t)
    \/ \E t \in Threads : __init__handles(t)
    \/ \E t \in Threads : __init__running(t)
    \/ \E t \in Threads : __init__initialized(t)
    \/ \E t \in Threads : get_global_hotkey_manager_assign(t)
    \/ Obtained /\ register(EscKey, {})
    \/ Obtained /\ HotkeyStart({})
    \/ Obtained /\ HotkeyStop

\* nothing was constructed yet, beside a ShortcutManager that is left alone
SingletonInit ==
    /\ InitWith({}, NotConstructed)
    /\ isWindows = TRUE
    /\ \A k \in Names : shortcuts[k].enabled = FALSE

SingletonSpec == SingletonInit /\ [][SingletonNext]_vars

\* ------------------------------------------------------- chords of keys

\* combo['keys']: the parts of key.split('+')
combo_keys(key) ==
    CASE key = "ctrl+alt+h" -> {"ctrl", "alt", "h"}
      [] key = "ctrl+h" -> {"ctrl", "h"}

\* e.name of the raw events of the keyboard library: the keys of the chords,
\* "h" as the library names it while shift is down, a key of no chord, and
\* an event without a name
RawNames == {"ctrl", "alt", "h", "H", "x", ""}

\* str(e.name).lower()
Lower(name) == IF name = "H" THEN "h" ELSE name

\* self._combo_defs: one entry for each enabled shortcut with '+' in its key
combo_defs == SelectSeq(ChordKeys, LAMBDA c : shortcuts[c].enabled)

\* the loop body of _combo_hook_cb taking a chord for held when one member is
ComboEdge_any_member(keys, pressed, active) ==
    LET active_now == keys \cap pressed # {} IN
    IF active_now /\ ~active THEN "down"
    ELSE IF ~active_now /\ active THEN "up"
    ELSE None

\* the loop body of _combo_hook_cb calling on every event that finds the chord held
ComboEdge_while_held(keys, pressed, active) ==
    LET active_now == keys \subseteq pressed IN
    IF active_now THEN "down"
    ELSE IF active THEN "up"
    ELSE None

\* the loop body of _combo_hook_cb for one combo: the call it makes, if any
ComboEdge(keys, pressed, active) ==
    LET active_now == keys \subseteq pressed IN
    IF active_now /\ ~active THEN "down"
    ELSE IF ~active_now /\ active THEN "up"
    ELSE None

\* the keyboard shortcuts are chords only, no lock key, with the given settings
ComboInitWith(settings) ==
    /\ isWindows = FALSE
    /\ shortcuts \in [Chords -> settings]
    /\ phase = "init"
    /\ tasks = [k \in {c \in Chords : shortcuts[c].enabled} |-> NewTask]
    /\ emulating_keys = {}
    /\ restoring_keys = {}
    /\ pool = EmptyBag
    /\ os_events = <<>>
    /\ cur = NoEvent
    /\ dpc = "idle"
    /\ held = {}
    /\ toggled = [k \in ToggleKeys |-> "off"]
    /\ now = 0
    /\ queue_in = <<>>
    /\ last = [k \in DOMAIN tasks |-> None]
    /\ presses = 0
    /\ live = None
    /\ pressed_keys = {}
    /\ combo_active = <<>>
    /\ signalled = FALSE
    /\ keyboard_hooks = {}
    /\ combo_hook = FALSE
    /\ raised = NoError
    /\ failed = {}
    /\ pool_shutdown = FALSE
    /\ gh = NewHotkeyManager
    /\ singleton = Constructed
    /\ shortcut_list = ListOf(shortcuts, ChordKeys)

\* chords that do not suppress
ComboInit == ComboInitWith({s \in ShortcutConfigs : ~s.suppress})

\* ShortcutManager.start elsewhere than on Windows: _setup_keyboard_lib_hooks
\* builds _combo_defs, every combo inactive, and empties _pressed_keys
ComboStart ==
    /\ phase = "init"
    /\ phase' = "running"
    /\ pressed_keys' = {}
    /\ combo_active' = [i \in DOMAIN combo_defs |-> FALSE]
    /\ keyboard_hooks' = HookedKeys
    /\ combo_hook' = (combo_defs # <<>>)
    /\ UNCHANGED <<isWindows, shortcuts, tasks, emulating_keys, restoring_keys, pool,
                   os_events, cur, dpc, held, toggled, now, queue_in, last, presses, live,
                   signalled, aux_vars>>

\* the calls of _keyboard_keydown / _keyboard_keyup one run of the loop makes,
\* in the order of _combo_defs
ComboCalls(pressed) ==
    SelectSeq([i \in DOMAIN combo_defs |->
                  [name |-> combo_defs[i],
                   msg |-> ComboEdge(combo_keys(combo_defs[i]), pressed, combo_active[i]),
                   synth |-> FALSE]],
              LAMBDA e : e.msg # None)

\* _combo_hook_cb: the keyboard library reports a raw event.  The hook is
\* registered only when there is a combo; the library calls it when the call
\* before has returned.  held follows the raw events as the library names them.
_combo_hook_cb(event_type, raw) ==
    /\ phase = "running"
    /\ DOMAIN combo_defs # {}
    /\ dpc = "idle"
    /\ os_events = <<>>
    /\ IF raw = ""
       THEN UNCHANGED <<pressed_keys, combo_active, os_events, held>>
       ELSE LET name == Lower(raw)
                pressed == IF event_type = "down"
                           THEN pressed_keys \cup {name}
                           ELSE pressed_keys \ {name}
            IN  /\ pressed_keys' = pressed
                /\ combo_active' =
                      [i \in DOMAIN combo_defs |->
                          LET call == ComboEdge(combo_keys(combo_defs[i]), pressed,
                                                combo_active[i])
                          IN  IF call = "down" THEN TRUE
                              ELSE IF call = "up" THEN FALSE
                              ELSE combo_active[i]]
                /\ os_events' = ComboCalls(pressed)
                /\ held' = IF event_type = "down" THEN held \cup {name} ELSE held \ {name}
    /\ UNCHANGED <<isWindows, shortcuts, phase, tasks, emulating_keys, restoring_keys,
                   pool, cur, dpc, toggled, now, queue_in, last, presses, live, signalled,
                   hook_vars, aux_vars>>

\* emulate_key of a chord: press_and_release has sent the raw events of the
\* chord's keys, or has raised; the raw events reach the chord hook like any
\* other raw event, and emulate_key returns
ComboEmulateSent(j) ==
    /\ j.kind = "emulate_key" /\ j.pc = "press"
    /\ pool' = Finished(j)
    /\ UNCHANGED <<isWindows, shortcuts, phase, tasks, emulating_keys, restoring_keys,
                   os_events, cur, dpc, held, toggled, now, queue_in, last, presses, live,
                   signalled, combo_vars, hook_vars, aux_vars>>

ComboNext ==
    \/ ComboStart
    \/ \E raw \in RawNames : _combo_hook_cb("down", raw)
    \/ \E raw \in RawNames : _combo_hook_cb("up", raw)
    \/ Tick
    \/ Consume
    \/ DispCheckEmulating
    \/ DispKeyDown
    \/ DispKeyUp

\* the chords with the re-press of a short suppressed chord and the emulation
\* guard it arms
ComboGuardNext ==
    \/ ComboNext
    \/ DispClearEmulating
    \/ \E j \in BagToSet(pool) : EmulateAdd(j)
    \/ \E j \in BagToSet(pool) : ComboEmulateSent(j)

\* The manager elsewhere than on Windows with chords configured: each call of
\* _keyboard_keydown / _keyboard_keyup the chord hook makes runs through the
\* guards and the handlers of the dispatcher.
ComboSpec == ComboInit /\ [][ComboNext]_vars

\* Hold-mode chords that suppress: a short chord is re-pressed through
\* emulate_key, and the calls the chord hook makes while the chord is in the
\* Emulation Set are swallowed.
ComboGuardSpec ==
    /\ ComboInitWith({s \in ShortcutConfigs : s.hold_mode /\ (s.enabled => s.suppress)})
    /\ [][ComboGuardNext]_vars

\* ------------------------------------------------------------- properties

\* the hook callback ends the handling of the current event in this step
Handled == dpc = "dispatch" /\ dpc' = "idle"

\* the current event passed both guards and has a task: it is routed
Routed ==
    /\ Handled
    /\ cur.name \notin restoring_keys
    /\ cur.name \in DOMAIN tasks

\* an action of the given type is put on queue_in in this step
Emits(type) ==
    /\ Len(queue_in') = Len(queue_in) + 1
    /\ queue_in'[Len(queue_in')].type = type

Elapsed(k) == now - tasks[k].recording_start_time

\* C1: under every interleaving of the hook callback with the pool workers, no
\* event synthesized by the Emulator is routed to a ShortcutTask: handling a
\* synthesized event never changes a task and never launches, finishes or
\* cancels.
C1_SyntheticNeverRouted ==
    [][(dpc = "dispatch" /\ cur.synth) => (~Routed /\ tasks' = tasks /\ last' = last)]_vars

\* C2: an event received while its name is in the Emulation Set is not routed
\* to a task; a down leaves the Emulation Set as it is, an up goes on to remove
\* the name from it, on the Windows filters and on the per-key hooks alike.
C2_EmulationGuardSwallows ==
    [][/\ (/\ dpc = "idle"
           /\ os_events # <<>>
           /\ os_events' = Tail(os_events)
           /\ Head(os_events).name \in emulating_keys)
          => /\ tasks' = tasks /\ last' = last /\ queue_in' = queue_in /\ pool' = pool
             /\ emulating_keys' = emulating_keys
             /\ dpc' # "dispatch"
             /\ IsDown(Head(os_events).msg) => dpc' = "idle"
             /\ IsUp(Head(os_events).msg) =>
                   (dpc' = "clear_emulating" /\ cur' = Head(os_events))
       /\ (dpc = "clear_emulating" /\ dpc' # dpc)
          => /\ dpc' = "idle"
             /\ emulating_keys' = emulating_keys \ {cur.name}
             /\ tasks' = tasks /\ last' = last /\ queue_in' = queue_in /\ pool' = pool
      ]_vars

C2_Witness ==
    /\ dpc = "clear_emulating"
    /\ cur.name \in emulating_keys
    /\ IsUp(cur.msg)

\* C3: an event that passed the emulation guard and whose name is in the
\* Restoring Set is not routed to a task, and an up removes the name from the
\* Restoring Set.
C3_RestoringGuardSwallows ==
    [][(Handled /\ cur.name \in restoring_keys)
          => /\ tasks' = tasks /\ last' = last /\ queue_in' = queue_in /\ pool' = pool
             /\ IsUp(cur.msg) => cur.name \notin restoring_keys'
             /\ IsDown(cur.msg) => restoring_keys' = restoring_keys
      ]_vars

C3_Witness ==
    /\ dpc = "dispatch"
    /\ cur.name \in restoring_keys
    /\ IsUp(cur.msg)
    /\ ~cur.synth

\* C4: the up of a hold-mode trigger that is recording cancels, and puts no
\* 'finish' on the queue, when elapsed < threshold; when elapsed >= threshold
\* (elapsed = threshold included) it puts exactly one 'finish' on the queue and
\* does not cancel.
C4_HoldUpThreshold ==
    [][LET k == cur.name IN
       (/\ Routed
        /\ IsUp(cur.msg)
        /\ shortcuts[k].hold_mode
        /\ tasks[k].is_recording)
          => IF Elapsed(k) < task_threshold(k)
             THEN /\ last'[k] = "cancel"
                  /\ tasks'[k].task = None
                  /\ ~tasks'[k].is_recording
                  /\ queue_in' = queue_in
             ELSE /\ last'[k] = "finish"
                  /\ tasks'[k].task = tasks[k].task
                  /\ ~tasks'[k].is_recording
                  /\ queue_in' = Append(queue_in, [type |-> "finish", time |-> now])
      ]_vars

C4_Witness ==
    \E k \in DOMAIN tasks :
        /\ shortcuts[k].hold_mode
        /\ last[k] = "finish"
        /\ queue_in = <<[type |-> "finish",
                         time |-> tasks[k].recording_start_time + task_threshold(k)]>>

\* C5: the actions a task puts on the queue alternate: a 'finish' only while a
\* 'begin' of that task is open (neither finished nor cancelled), a 'begin'
\* only while none is open.
C5_BeginFinishAlternate ==
    [][/\ Emits("finish") => (Routed /\ last[cur.name] = "begin")
       /\ Emits("begin") => (Routed /\ last[cur.name] # "begin")
      ]_vars

C5_Witness ==
    \E k \in DOMAIN tasks :
        /\ last[k] = "finish"
        /\ queue_in # <<>>
        /\ queue_in[Len(queue_in)].type = "finish"
        /\ queue_in[Len(queue_in)].time > tasks[k].recording_start_time

Recording(k) == k \in DOMAIN tasks /\ tasks[k].is_recording

\* C6: with every key pressed let go again and the hook thread and the workers
\* running, every recording a hold-mode trigger began is resolved by a finish
\* or a cancel: is_recording returns to false.
C6_EveryBeginResolves ==
    \A k \in Names : (Recording(k) /\ shortcuts[k].hold_mode) ~> ~Recording(k)

C8_ClickDownBegins ==
    [][LET k == cur.name IN
       (Routed /\ ~shortcuts[k].hold_mode)
          => /\ (IsDown(cur.msg) /\ ~tasks[k].is_recording)
                   => (Emits("begin") /\ tasks'[k].is_recording /\ last'[k] = "begin")
             /\ IsUp(cur.msg)
                   => /\ queue_in' = queue_in
                      /\ last' = last
                      /\ [tasks'[k] EXCEPT !.pressed = FALSE, !.released = TRUE,
                                           !.event = TRUE]
                         = [tasks[k] EXCEPT !.pressed = FALSE, !.released = TRUE,
                                            !.event = TRUE]
      ]_vars

C8_Witness ==
    \E k \in DOMAIN tasks :
        /\ ~shortcuts[k].hold_mode
        /\ last[k] = "begin"
        /\ tasks[k].released
        /\ tasks[k].event

\* C9 as stated, on the triggers whose up handler is _handle_mouse_keyup: the
\* up of an Armed click-mode trigger resolves the activation (released set,
\* pressed cleared) and the task is Idle again.
C9_ClickUpResolves ==
    [][LET k == cur.name IN
       (/\ Routed
        /\ IsUp(cur.msg)
        /\ Type(k) = "mouse"
        /\ ~shortcuts[k].hold_mode
        /\ tasks[k].is_recording
        /\ tasks[k].pressed)
          => /\ tasks'[k].released
             /\ ~tasks'[k].pressed
             /\ ~tasks'[k].is_recording
      ]_vars

\* C9: the up of an Armed click-mode trigger sets released, clears pressed and
\* sets the event, whatever the elapsed duration; it puts nothing on the queue
\* and the task goes on recording.
C9_ClickUpBookkeeping ==
    [][LET k == cur.name IN
       (/\ Routed
        /\ IsUp(cur.msg)
        /\ ~shortcuts[k].hold_mode
        /\ tasks[k].is_recording
        /\ tasks[k].pressed)
          => /\ tasks'[k].released
             /\ ~tasks'[k].pressed
             /\ tasks'[k].event
             /\ tasks'[k].is_recording
             /\ tasks'[k].task = tasks[k].task
             /\ queue_in' = queue_in
             /\ last' = last
      ]_vars

C9_Witness ==
    \E k \in DOMAIN tasks :
        /\ Type(k) = "mouse"
        /\ ~shortcuts[k].hold_mode
        /\ tasks[k].is_recording
        /\ tasks[k].released
        /\ ~tasks[k].pressed
        /\ tasks[k].event
        /\ now > tasks[k].recording_start_time

\* the re-press of k as it is submitted to the pool
Repress(k) ==
    [kind |-> IF Type(k) = "mouse" THEN "emulate_mouse_click" ELSE "emulate_key",
     key |-> k, pc |-> "add"]

\* C10: when the up of a hold-mode trigger resolves a recording, exactly one
\* re-press of the key is submitted to the pool if the press was short and the
\* trigger has suppress, and none otherwise (a finished press, or no suppress);
\* the re-press does not run in the hook callback.
C10_RepressOnlyWhenSuppressed ==
    [][LET k == cur.name IN
       (/\ Routed
        /\ IsUp(cur.msg)
        /\ shortcuts[k].hold_mode
        /\ tasks[k].is_recording)
          => LET n == IF Elapsed(k) < task_threshold(k) /\ shortcuts[k].suppress THEN 1 ELSE 0
             IN  /\ emulating_keys' = emulating_keys
                 /\ os_events' = os_events
                 /\ CopiesIn(Repress(k), pool') = CopiesIn(Repress(k), pool) + n
                 /\ \A j \in BagToSet(pool') \cup BagToSet(pool) :
                       (j.kind # "do_restore" /\ j # Repress(k))
                          => CopiesIn(j, pool') = CopiesIn(j, pool)
      ]_vars

C10_Witness ==
    \E k \in DOMAIN tasks :
        /\ shortcuts[k].suppress
        /\ last[k] = "cancel"
        /\ BagIn(Repress(k), pool)
        /\ k \notin emulating_keys

\* the job schedule_restore submits for k
RestoreJob(k) == [kind |-> "do_restore", key |-> k, pc |-> "sleep"]

\* the do_restore jobs for k this step adds to the pool
RestoresAdded(k) == CopiesIn(RestoreJob(k), pool') - CopiesIn(RestoreJob(k), pool)

\* the up of a hold-mode trigger with suppress on a lock key, released before
\* the threshold, reaches its task
ShortSuppressedToggleUp(k) ==
    /\ Routed
    /\ cur.name = k
    /\ IsUp(cur.msg)
    /\ shortcuts[k].hold_mode
    /\ shortcuts[k].suppress
    /\ is_toggle_key(k)
    /\ tasks[k].is_recording
    /\ Elapsed(k) < task_threshold(k)

\* C11 as stated: a hold-mode trigger with suppress on a lock key, released
\* before the threshold, has put one 'begin' on the queue, is cancelled without
\* a 'finish', and exactly one restore of the key is scheduled.
C11_ShortPressOneRestore ==
    [][\A k \in DOMAIN tasks :
          ShortSuppressedToggleUp(k)
             => /\ last[k] = "begin"
                /\ last'[k] = "cancel"
                /\ queue_in' = queue_in
                /\ RestoresAdded(k) = 1
      ]_vars

\* C11: such a press has put one 'begin' on the queue and is cancelled without
\* a 'finish'; exactly one re-press of the key is submitted to the pool; on
\* Windows no restore is scheduled, elsewhere one restore is scheduled as well
\* exactly when the lock state at the press or at the release could not be
\* read or the two differ.
C11_ShortPressRepressAndRestore ==
    [][\A k \in DOMAIN tasks :
          ShortSuppressedToggleUp(k)
             => /\ last[k] = "begin"
                /\ last'[k] = "cancel"
                /\ queue_in' = queue_in
                /\ CopiesIn(Repress(k), pool') = CopiesIn(Repress(k), pool) + 1
                /\ RestoresAdded(k) =
                      IF /\ ~isWindows
                         /\ \/ tasks[k].toggle_state_at_press = None
                            \/ live' = None
                            \/ live' # tasks[k].toggle_state_at_press
                      THEN 1 ELSE 0
                /\ BagCardinality(pool') =
                      BagCardinality(pool) + 1 + RestoresAdded(k)
      ]_vars

C11_Witness ==
    \E k \in DOMAIN tasks :
        /\ shortcuts[k].hold_mode
        /\ shortcuts[k].suppress
        /\ is_toggle_key(k)
        /\ last[k] = "cancel"
        /\ BagIn(Repress(k), pool)
        /\ BagIn(RestoreJob(k), pool)
        /\ live # None

\* the last thing k's task did was to cancel a press released before the threshold
ShortCancelled(k) ==
    /\ k \in DOMAIN tasks
    /\ shortcuts[k].hold_mode
    /\ last[k] = "cancel"

\* the user holds nothing, and no event of the user's is waiting or being handled
NoUserInputPending ==
    /\ held = {}
    /\ \A i \in 1..Len(os_events) : os_events[i].synth
    /\ dpc = "idle" \/ cur.synth

\* C12: once a hold-mode press has been released before the threshold, and
\* unless the user presses something again, the Emulation Set and the
\* Restoring Set are both empty again after the scheduled pool work has run.
C12_SetsDrainAfterShortPress ==
    \A k \in Names : \A n \in 0..MaxPresses :
        (ShortCancelled(k) /\ NoUserInputPending /\ presses = n)
            ~> ((emulating_keys = {} /\ restoring_keys = {}) \/ presses > n)

\* an emulate_mouse_click(k) submitted to the pool has not completed yet
MouseClickInFlight(k, jobs) ==
    \E j \in BagToSet(jobs) : j.kind = "emulate_mouse_click" /\ j.key = k

\* C13: emulate_mouse_click both marks and unmarks the name: once it has
\* completed the button is not in the Emulation Set, and the next down or up
\* of the user's for that button is not swallowed by the emulation guard.
C13_MouseClickUnmarks ==
    [][/\ \A k \in MouseNames :
             ~MouseClickInFlight(k, pool') => k \notin emulating_keys'
       /\ (/\ dpc = "idle"
           /\ os_events # <<>>
           /\ os_events' = Tail(os_events)
           /\ ~Head(os_events).synth
           /\ Head(os_events).name \in MouseNames
           /\ ~MouseClickInFlight(Head(os_events).name, pool))
             => dpc' = "dispatch"
      ]_vars

\* the press_and_release of an emulate_key(k) has raised
SynthesisFailed(k) ==
    \E j \in BagToSet(pool) : j.key = k /\ j.pc = "except"

\* C14: when the synthesis inside emulate_key(k) has failed, k does not stay in
\* the Emulation Set: it is cleared in the end even if the user presses nothing
\* more, so that no up of k need be observed for it.
C14_FailedSynthesisClears ==
    \A k \in KeyboardNames : \A n \in 0..MaxPresses :
        (SynthesisFailed(k) /\ presses = n)
            ~> (k \notin emulating_keys \/ presses > n)

\* C15: observing the up of a key that is being emulated removes that key from
\* the Emulation Set and nothing else: every other name is in the Emulation
\* Set and in the Restoring Set afterwards exactly if it was before.
C15_EmulatedUpClearsOnlyItself ==
    [][/\ (dpc = "idle" /\ dpc' = "clear_emulating")
          => (emulating_keys' = emulating_keys /\ restoring_keys' = restoring_keys)
       /\ (dpc = "clear_emulating" /\ dpc' # dpc)
          => /\ cur.name \notin emulating_keys'
             /\ \A n \in Keys \ {cur.name} :
                   /\ n \in emulating_keys' <=> n \in emulating_keys
                   /\ n \in restoring_keys' <=> n \in restoring_keys
      ]_vars

C15_Witness ==
    /\ dpc = "clear_emulating"
    /\ cur.synth
    /\ cur.name \in emulating_keys
    /\ \E n \in Keys \ {cur.name} : n \in emulating_keys

\* the routed event resolves the activation of k in this step: the task was
\* launched and not yet resolved, and is finished or cancelled now
Resolves(k) ==
    /\ Routed
    /\ cur.name = k
    /\ last[k] = "begin"
    /\ last'[k] \in {"finish", "cancel"}
    /\ tasks[k].is_recording
    /\ ~tasks'[k].is_recording

\* C16: schedule_restore is called for a trigger only in the step that resolves
\* an activation of it (by finish or by cancel), once in that step, and never
\* when the lock state read at the resolution equals the one kept at the press.
C16_RestoreOncePerActivation ==
    [][\A k \in DOMAIN tasks :
          RestoresAdded(k) > 0
          => /\ RestoresAdded(k) = 1
             /\ Resolves(k)
             /\ is_toggle_key(k)
             /\ ~(/\ ~isWindows
                  /\ tasks[k].toggle_state_at_press # None
                  /\ live' # None
                  /\ live' = tasks[k].toggle_state_at_press)
      ]_vars

C16_Witness ==
    \E k \in DOMAIN tasks :
       /\ ~isWindows
       /\ last[k] \in {"finish", "cancel"}
       /\ tasks[k].toggle_state_at_press # None
       /\ live \notin {None, tasks[k].toggle_state_at_press}
       /\ CopiesIn(RestoreJob(k), pool) = 1
       /\ dpc = "idle"

\* the restore decision of section 4.4 for trigger k, from the platform, the
\* trigger's suppress, the snapshot of the press and the read of the resolution
RestoreDecision(k, snapshot, read) ==
    /\ k \in ToggleKeys
    /\ IF isWindows
       THEN ~shortcuts[k].suppress
       ELSE snapshot = None \/ read = None \/ read # snapshot

\* C17: at the resolution of an activation a restore is scheduled exactly when
\* the trigger is toggle-capable and, on Windows, its suppress is false, or,
\* elsewhere, the snapshot or the live read is unavailable or they differ; a
\* trigger that is not toggle-capable never has a restore scheduled.
C17_RestoreDecision ==
    [][\A k \in DOMAIN tasks :
          /\ Resolves(k)
             => (RestoresAdded(k) = 1
                 <=> RestoreDecision(k, tasks[k].toggle_state_at_press, live'))
          /\ Resolves(k) => RestoresAdded(k) \in {0, 1}
          /\ ~is_toggle_key(k) => RestoresAdded(k) = 0
      ]_vars

C17_Witness ==
    \E k \in DOMAIN tasks :
       /\ ~isWindows
       /\ is_toggle_key(k)
       /\ last[k] \in {"finish", "cancel"}
       /\ tasks[k].toggle_state_at_press # None
       /\ live = tasks[k].toggle_state_at_press
       /\ k \notin restoring_keys
       /\ CopiesIn(RestoreJob(k), pool) = 0
       /\ dpc = "idle"

\* the do_restore jobs for k in pool p that stand at pc
RestoreAt(p, k, pc) == CopiesIn([kind |-> "do_restore", key |-> k, pc |-> pc], p)

RestorePcs == {"sleep", "add", "press", "release", "except", "clear"}

\* the order in which do_restore runs: the sleep, emulate_key (add, then
\* press_and_release sending both events or raising), clear_restoring_flag
RestoreEdges ==
    {<<"sleep", "add">>, <<"add", "press">>, <<"press", "release">>,
     <<"press", "except">>, <<"release", "clear">>, <<"except", "clear">>}

\* this step changes the do_restore jobs for k by exactly delta
RestoreJobsChange(k, delta) ==
    \A pc \in RestorePcs : RestoreAt(pool', k, pc) = RestoreAt(pool, k, pc) + delta[pc]

Zero == [pc \in RestorePcs |-> 0]

CallsIn(q, c, type) == Cardinality({i \in DOMAIN q : q[i].name = c /\ q[i].msg = type})

AllHeld(c, h) == combo_keys(c) \subseteq h

\* C19: for every chord, a raw event that takes it from "not all members held"
\* to "all members held" dispatches exactly one synthetic down for it and no
\* up, whatever the order of the presses; a raw event that takes it from "all
\* members held" to "not all held" (the release of the first member)
\* dispatches exactly one synthetic up and no down; any other step (a repeated
\* down, a key of no chord, the release of a remaining member) dispatches
\* nothing for it.
C19_ChordEdges ==
    [][\A c \in DOMAIN tasks :
          LET downs == CallsIn(os_events', c, "down") - CallsIn(os_events, c, "down")
              ups == CallsIn(os_events', c, "up") - CallsIn(os_events, c, "up")
          IN  /\ (~AllHeld(c, held) /\ AllHeld(c, held')) => (downs = 1 /\ ups = 0)
              /\ (AllHeld(c, held) /\ ~AllHeld(c, held')) => (downs = 0 /\ ups = 1)
              /\ (AllHeld(c, held) <=> AllHeld(c, held')) => (downs <= 0 /\ ups <= 0)
      ]_vars

\* the three-key chord is held and recording, with a key of no chord held too
C19_Witness ==
    /\ "ctrl+alt+h" \in DOMAIN tasks
    /\ AllHeld("ctrl+alt+h", held)
    /\ "x" \in held
    /\ last["ctrl+alt+h"] = "begin"
    /\ tasks["ctrl+alt+h"].is_recording
    /\ dpc = "idle" /\ os_events = <<>>

\* C20: whatever is done with an event for name A (routed, swallowed or
\* ignored), the task of every other trigger B keeps its is_recording,
\* recording_start_time, pressed, released, event, capture handle and toggle
\* snapshot, and its last outcome: a task changes only in the step that routes
\* an event of its own name.  A launch records the time of its own press, and
\* a hold-mode up resolves by the time since the task's own press against the
\* task's own threshold.
C20_TasksIndependent ==
    [][\A b \in DOMAIN tasks :
          /\ (tasks'[b] # tasks[b] \/ last'[b] # last[b])
             => (Routed /\ cur.name = b)
          /\ (last'[b] = "begin" /\ last[b] # "begin")
             => tasks'[b].recording_start_time = now
          /\ (Resolves(b) /\ shortcuts[b].hold_mode)
             => (last'[b] = "cancel"
                 <=> now - tasks[b].recording_start_time
                       < (IF b \in MouseNames THEN OwnThreshold ELSE Threshold))
      ]_vars

\* two triggers were pressed at different times; one has resolved while the
\* other is still recording
C20_Witness ==
    \E a, b \in DOMAIN tasks :
       /\ a # b
       /\ shortcuts[a].hold_mode /\ shortcuts[b].hold_mode
       /\ last[a] \in {"finish", "cancel"}
       /\ last[b] = "begin"
       /\ tasks[b].is_recording
       /\ tasks[a].recording_start_time # tasks[b].recording_start_time

\* the callback returns in this step having found no task for the name of the
\* event, which neither guard swallowed
Ignored ==
    /\ Handled
    /\ cur.name \notin restoring_keys
    /\ cur.name \notin DOMAIN tasks

\* C21: an event whose name is in neither guard set and has no task changes
\* nothing: no task, Emulation Set, Restoring Set or action queue is modified,
\* nothing is submitted to the pool, and the platform is not told to consume
\* the event (a lock key's down takes its effect).
C21_UnregisteredIgnored ==
    [][Ignored
       => /\ tasks' = tasks
          /\ last' = last
          /\ emulating_keys' = emulating_keys
          /\ restoring_keys' = restoring_keys
          /\ queue_in' = queue_in
          /\ pool' = pool
          /\ ~signalled'
          /\ \A k \in ToggleKeys :
                toggled'[k] = IF k = cur.name /\ IsDown(cur.msg)
                              THEN Not(toggled[k]) ELSE toggled[k]
      ]_vars

\* an event of a key without a task is being ignored while a task is recording
\* and the event before it was consumed
C21_Witness ==
    /\ dpc = "dispatch"
    /\ ~cur.synth
    /\ cur.name \notin DOMAIN tasks
    /\ cur.name \notin restoring_keys
    /\ signalled
    /\ \E k \in DOMAIN tasks : tasks[k].is_recording

\* the callback returns in this step, the event swallowed by a guard or routed
\* or ignored
EventDone ==
    \/ Handled
    \/ dpc = "clear_emulating" /\ dpc' = "idle"
    \/ dpc = "idle" /\ dpc' = "idle" /\ os_events # <<>> /\ os_events' = Tail(os_events)

\* C22: the platform is told to consume an event exactly when the event is
\* routed to a task whose shortcut has suppress, down and up alike; an event
\* swallowed by the emulation or the restoring guard, or without a task, is
\* never to be consumed.
C22_SuppressIffRoutedAndSuppress ==
    [][EventDone
       => (signalled' <=> (Routed /\ shortcuts[cur.name].suppress))
      ]_vars

\* C22 on Windows, where the filter decides event by event
C22_WindowsSuppressIffRouted ==
    [][(EventDone /\ isWindows)
       => (signalled' <=> (Routed /\ shortcuts[cur.name].suppress))
      ]_vars

\* what holds of a call of stop() that returned
StopReturned ==
    /\ \A k \in DOMAIN tasks : ~tasks'[k].is_recording
    /\ queue_in' = queue_in
    /\ keyboard_hooks' = {} /\ combo_hook' = FALSE
    /\ ~keyboard_listener' /\ ~mouse_listener'
    /\ pool_shutdown'
    /\ pool \sqsubseteq pool'

\* C23: when stop() returns, no task is recording (every recording task was
\* cancelled and no 'finish' was put on queue_in), no hook is registered, the
\* pool is shut down with its outstanding jobs left in it; and stop() does not
\* fail on the submit of a restore that a cancel schedules.
C23_StopCancelsReleasesShutsDown ==
    [][Stop => /\ raised'.what # "RuntimeError"
               /\ raised'.what = None => StopReturned]_vars

\* C23, for the first call of stop(): the restore of a cancelled task is
\* submitted before the pool is shut down
C23_FirstStopCancelsReleasesShutsDown ==
    [][Stop /\ ~pool_shutdown =>
          /\ raised'.what # "RuntimeError"
          /\ raised'.what = None => StopReturned]_vars

\* C25: no event makes the callback fail: whatever is raised while an event is
\* handled is caught before it leaves the filter or hook callback.
C25_NoEventFailsTheCallback == raised.by # "callback"

\* start() ended with the listener setup of one input class raising
StartFailed == phase = "init" /\ phase' = "running" /\ raised'.by = "start"

\* C26: when both input classes have enabled triggers and the listener setup
\* of one class fails in start(), only that class is without its listener:
\* the listener of the other class is started.
C26_StartFailureConfined ==
    [][StartFailed /\ has_keyboard /\ has_mouse => failed' = {raised'.what}]_vars

\* the enabled entries of the list, and those of key k
EnabledEntries == {i \in 1..Len(shortcut_list) : shortcut_list[i].enabled}
EnabledFor(k) == {i \in EnabledEntries : shortcut_list[i].key = k}

\* C24 as stated: as many tasks as enabled definitions, none for a key without
\* an enabled definition, and the set of tasks never changes.
C24_OneTaskPerEnabledDefinition ==
    /\ [](/\ Cardinality(DOMAIN tasks) = Cardinality(EnabledEntries)
          /\ \A k \in DOMAIN tasks : EnabledFor(k) # {})
    /\ [][DOMAIN tasks' = DOMAIN tasks]_vars

\* C24: there is one task for each key that has an enabled definition and none
\* for any other key; the task works with the last enabled definition of its
\* key; and the set of tasks never changes.
C24_OneTaskPerEnabledKey ==
    /\ [](/\ \A k \in Names : k \in DOMAIN tasks <=> EnabledFor(k) # {}
          /\ \A k \in DOMAIN tasks :
                \E i \in EnabledFor(k) :
                   /\ \A j \in EnabledFor(k) : j <= i
                   /\ shortcuts[k] = Settings(shortcut_list[i]))
    /\ [][DOMAIN tasks' = DOMAIN tasks]_vars

\* a key defined twice, both enabled, with different settings, whose one task
\* has been launched by a press
C24_Witness ==
    \E k \in DOMAIN tasks :
       /\ Cardinality(EnabledFor(k)) = 2
       /\ \E i, j \in EnabledFor(k) : shortcut_list[i] # shortcut_list[j]
       /\ tasks[k].is_recording

\* register or unregister is called for key_str while the manager is running
Reregistered(key_str) ==
    /\ gh.running /\ gh'.running
    /\ key_str \in HotkeyStrings
    /\ Registered(gh') \in {Registered(gh) \cup {key_str}, Registered(gh) \ {key_str}}
    /\ Registered(gh') # Registered(gh)

\* C27: adding or removing one trigger while running leaves the backend handle
\* of every other registered trigger as it was.
C27_OnlyAffectedListenerRebuilt ==
    [][\A key_str \in HotkeyStrings :
          Reregistered(key_str) =>
             \A k \in (DOMAIN gh.handles) \ {key_str} :
                k \in DOMAIN gh'.handles /\ gh'.handles[k] = gh.handles[k]]_vars

\* a do_restore job for k that has not handed both synthesized events to the
\* platform yet
RestorePending(k) ==
    \E pc \in {"sleep", "add", "press", "release"} : RestoreAt(pool, k, pc) > 0

\* the order of schedule_restore: the mark is set in the step that submits the
\* job, the Emulation Set mark is set by the job after its sleep, and the job
\* clears the Restoring Set mark only after emulate_key has returned
RestoreOrder ==
    \A k \in Keys :
       /\ RestoreAt(pool', k, "sleep") > RestoreAt(pool, k, "sleep")
             => Routed /\ k \in restoring_keys'
       /\ RestoreAt(pool', k, "press") > RestoreAt(pool, k, "press")
             => /\ dpc' = dpc
                /\ RestoreAt(pool', k, "add") < RestoreAt(pool, k, "add")
                /\ k \in emulating_keys'
       /\ (dpc' = dpc /\ k \in restoring_keys /\ k \notin restoring_keys')
             => RestoreAt(pool', k, "clear") < RestoreAt(pool, k, "clear")

\* C28: schedule_restore(k) marks k in the Restoring Set before it returns, the
\* emulator runs after the delay on a worker, the mark is cleared after
\* emulate_key returned; so from schedule_restore until the synthesized events
\* are out, k is in the Restoring Set or in the Emulation Set.
C28_RestoreMarkedThroughout ==
    /\ [][RestoreOrder]_vars
    /\ [](\A k \in Keys : RestorePending(k) => k \in restoring_keys \cup emulating_keys)

\* C28, the order alone: it holds on every step
C28_RestoreOrder == [][RestoreOrder]_vars

\* C29: once the chord hook has processed a raw event, each chord is active
\* exactly when all its keys are in the pressed set, whatever else is pressed
\* and whether or not the call it made was swallowed by a guard.
C29_ActiveIffAllPressed ==
    phase = "running" =>
       \A i \in DOMAIN combo_defs :
          combo_active[i] <=> (combo_keys(combo_defs[i]) \subseteq pressed_keys)

\* a hold-mode chord is active with a key of no chord pressed as well, and its
\* down call was swallowed by the emulation guard: the task is not recording
C29_Witness ==
    /\ dpc = "idle" /\ os_events = <<>>
    /\ "x" \in pressed_keys
    /\ \E i \in DOMAIN combo_defs :
          /\ phase = "running"
          /\ combo_active[i]
          /\ shortcuts[combo_defs[i]].hold_mode
          /\ combo_defs[i] \in emulating_keys
          /\ ~tasks[combo_defs[i]].is_recording

\* the event a guard swallows in this step, if any: a down or an up met by the
\* emulation guard, or an event met by the restoring guard
SwallowedNow ==
    IF dpc = "idle" /\ dpc' = "idle" /\ os_events # <<>> /\ os_events' = Tail(os_events)
    THEN {Head(os_events)}
    ELSE IF dpc = "clear_emulating" /\ dpc' = "idle"
    THEN {cur}
    ELSE IF Handled /\ RestoringGuard(cur).hit
    THEN {cur}
    ELSE {}

\* C30: the guards swallow synthesized events only: a down or an up made by
\* the user is never dropped from trigger logic as if it were synthetic.
C30_OnlySynthesizedSwallowed ==
    [][\A e \in SwallowedNow : e.synth]_vars

\* C31: the up of a hold-mode trigger whose task is not recording (its down was
\* never seen, was swallowed by a guard, or the activation is already resolved)
\* does nothing: no field of any task changes, nothing is put on the queue,
\* nothing is submitted to the pool and no key is marked as being restored.
C31_HoldUpWhileIdleIsNoOp ==
    [][(/\ Routed
        /\ IsUp(cur.msg)
        /\ shortcuts[cur.name].hold_mode
        /\ ~tasks[cur.name].is_recording)
          => /\ tasks' = tasks /\ last' = last /\ queue_in' = queue_in /\ pool' = pool
             /\ restoring_keys' = restoring_keys
             /\ emulating_keys' = emulating_keys]_vars

\* the button held since before start() was released and its up handled, and
\* the task is as it was built
C31_Witness ==
    /\ "x1" \in DOMAIN tasks
    /\ shortcuts["x1"].hold_mode
    /\ phase = "running"
    /\ presses = 1
    /\ "x1" \notin held
    /\ os_events = <<>>
    /\ dpc = "idle"
    /\ tasks = InitTasks(shortcuts)
    /\ last["x1"] = None
    /\ queue_in = <<>>

\* the registered hotkeys that name a key at all: _start_listener skips a hotkey
\* that normalizes to the empty string
Usable(g) == {k \in Registered(g) : Normalized[k] # <<>>}

\* the handle map is empty while the manager is not running
HandlesOnlyWhileRunning == ~gh.running => DOMAIN gh.handles = {}

\* every key of the handle map has its registration at the backend
HandlesLive ==
    \A k \in DOMAIN gh.handles :
        [handle |-> gh.handles[k], hotkey |-> Normalized[k], key_str |-> k] \in gh.backend

\* unregister returns True iff the key was registered; on False nothing changes,
\* on True the key is gone from the hotkeys and from the handle map
UnregisterReturns ==
    gh'.call.op = "unregister" =>
        LET key_str == gh'.call.key_str IN
        /\ gh'.call.ret = (key_str \in Registered(gh))
        /\ ~gh'.call.ret => gh' = [gh EXCEPT !.call = gh'.call]
        /\ gh'.call.ret => /\ Registered(gh') = Registered(gh) \ {key_str}
                           /\ key_str \notin DOMAIN gh'.handles

\* C32 as stated: not running, the handle map is empty; running, with no
\* add_hotkey refused, the keys holding a live handle are exactly the registered
\* hotkeys; unregister returns True iff the key was registered and changes
\* nothing on False.
C32_HandlesAreTheRegisteredHotkeys ==
    /\ [](HandlesOnlyWhileRunning /\ HandlesLive)
    /\ []((gh.running /\ gh.refused = {}) => DOMAIN gh.handles = Registered(gh))
    /\ [][UnregisterReturns]_vars

\* C32, amended: not running, the handle map is empty; running, with no
\* add_hotkey refused, the keys holding a live handle are exactly the registered
\* hotkeys that do not normalize to the empty string; unregister returns True iff
\* the key was registered and changes nothing on False.
C32_HandlesAreTheUsableHotkeys ==
    /\ [](HandlesOnlyWhileRunning /\ HandlesLive)
    /\ []((gh.running /\ gh.refused = {}) => DOMAIN gh.handles = Usable(gh))
    /\ [][UnregisterReturns]_vars

\* a hotkey was unregistered while running: it has no handle, the one that
\* stays registered has one, and a blank one is registered without a handle
C32_Witness ==
    /\ gh.running
    /\ gh.refused = {}
    /\ gh.call.op = "unregister"
    /\ gh.call.ret = TRUE
    /\ gh.call.key_str \notin DOMAIN gh.handles
    /\ DOMAIN gh.handles # {}
    /\ Registered(gh) \ Usable(gh) # {}

\* every registration alive at the backend is held in the handle map: a handle
\* leaves the map only after remove_hotkey was called with it
NoLeak ==
    \A r \in gh.backend :
        r.key_str \in DOMAIN gh.handles /\ gh.handles[r.key_str] = r.handle

\* C33 as stated, the hotkey string being the one the backend is given: no
\* registration is leaked, and no hotkey has two live registrations at the
\* backend.
C33_NoLeakNoDuplicateAtBackend ==
    /\ NoLeak
    /\ \A r1, r2 \in gh.backend : r1.hotkey = r2.hotkey => r1 = r2

\* C33, amended: no registration is leaked, and no registered hotkey string has
\* two live registrations at the backend.
C33_NoLeakNoDuplicatePerKey ==
    /\ NoLeak
    /\ \A r1, r2 \in gh.backend : r1.key_str = r2.key_str => r1 = r2

\* the listener was rebuilt (handles were removed) and two registered strings
\* of one hotkey hold one registration each
C33_Witness ==
    /\ gh.running
    /\ gh.issued > Cardinality(gh.backend)
    /\ \E r1, r2 \in gh.backend : r1.hotkey = r2.hotkey /\ r1.key_str # r2.key_str
    /\ Cardinality(gh.backend) = Cardinality(DOMAIN gh.handles)

\* start() returns
Started == gh'.call.op = "start"

\* start() while running changes nothing
StartWhileRunning == (Started /\ gh.running) => gh' = [gh EXCEPT !.call = gh'.call]

\* C35 as stated: start() while running changes nothing; start() with no
\* registered hotkeys leaves the manager not running with no handles, and a
\* hotkey registered next gets no handle; start() after stop() gives every
\* registered hotkey a new handle.
C35_StartIdempotentAndGuarded ==
    [][/\ StartWhileRunning
       /\ (Started /\ gh.hotkeys = <<>>)
             => ~gh'.running /\ DOMAIN gh'.handles = {}
       /\ (gh.call.op = "start" /\ gh.hotkeys = <<>> /\ gh'.call.op = "register")
             => DOMAIN gh'.handles = {}
       /\ (gh.call.op = "stop" /\ Started)
             => /\ DOMAIN gh'.handles = Registered(gh')
                /\ \A k \in DOMAIN gh'.handles : gh'.handles[k] > gh.issued]_vars

\* C35, amended: start() while running changes nothing; start() with no
\* registered hotkeys while not running leaves the manager not running with no
\* handles, and a hotkey registered next gets no handle; start() after stop()
\* gives a new handle to every registered hotkey that does not normalize to the
\* empty string and that add_hotkey does not refuse, and sets the manager
\* running iff a hotkey is registered.
C35_StartIdempotentAndGuardedWhenStopped ==
    [][/\ StartWhileRunning
       /\ (Started /\ ~gh.running /\ gh.hotkeys = <<>>)
             => ~gh'.running /\ DOMAIN gh'.handles = {}
       /\ (gh.call.op = "start" /\ ~gh.running /\ gh'.call.op = "register")
             => ~gh'.running /\ DOMAIN gh'.handles = {}
       /\ (gh.call.op = "stop" /\ Started)
             => /\ gh'.running = (gh.hotkeys # <<>>)
                /\ DOMAIN gh'.handles = Usable(gh') \ gh'.refused
                /\ \A k \in DOMAIN gh'.handles : gh'.handles[k] > gh.issued]_vars

\* start() has returned with the manager running on a listener built anew:
\* every usable hotkey holds a handle issued after those of the first build
C35_Witness ==
    /\ gh.call.op = "start"
    /\ gh.running
    /\ gh.refused = {}
    /\ DOMAIN gh.handles = Usable(gh)
    /\ Cardinality(Usable(gh)) >= 2
    /\ \A k \in DOMAIN gh.handles : gh.handles[k] > Cardinality(Usable(gh))

\* C34: every construction yields the same instance, the body of __init__ runs
\* at most once, and no step of a construction changes the hotkeys, the handles
\* or the running flag of the manager.
C34_SingletonInitializedOnce ==
    /\ [](/\ singleton.created <= 1
          /\ singleton.inits <= 1
          /\ \A t \in Threads :
                singleton.pc[t] = "done" => singleton.ref[t] = singleton.instance
          /\ singleton.global \in {NoInstance, singleton.instance})
    /\ [][singleton' # singleton
            => /\ gh'.hotkeys = gh.hotkeys
               /\ gh'.handles = gh.handles
               /\ gh'.running = gh.running]_vars

====
